---- MODULE Spec2Model ----
(***************************************************************************)
(* Model of src/common/db/Database.py: the configuration store behind      *)
(* save_config (the merge engine), its projections get_config and          *)
(* get_services_settings, the custom configs of save_custom_configs, and   *)
(* the bootstrap operations init_tables and initialize_db.                 *)
(*                                                                         *)
(* Strings are modelled by their structure:                                *)
(*   - a setting key is the sequence of its "_"-separated segments         *)
(*     ("a_K_1" is <<"a", "K", "1">>);                                     *)
(*   - a value is the sequence of its " "-separated words                  *)
(*     ("a b" is <<"a", "b">>, "" is <<>>).                                *)
(* A table is the set of its rows; the primary keys of the tables are      *)
(* declared in model.py, which is not part of the sources at hand: they    *)
(* are taken from the data model of the specification.                     *)
(***************************************************************************)
EXTENDS Integers, Sequences, FiniteSets, TLC

VARIABLES
    tables,             \* TRUE once init_tables has created the schema
    Settings,           \* rows of the settings table
    Services,           \* rows of the services table (ids)
    Global_values,      \* rows of the global_values table
    Services_settings,  \* rows of the services_settings table
    Metadata,           \* <<>> or <<row>>: the metadata row of id 1
    Custom_configs,     \* rows of the custom_configs table
    Plugins,            \* rows of the plugins table
    Selects,            \* rows of the selects table
    Jobs,               \* rows of the jobs table
    Job_cache,          \* rows of the job_cache table
    Plugin_pages,       \* rows of the plugin_pages table
    sessions,           \* the sessions of two concurrent calls of save_config
    calls,              \* number of recorded calls
    pre,                \* the store as the last recorded call found it
    last,               \* the last recorded call: arguments and outcome
    out                 \* what the last read of the store returned

vars == <<tables, Settings, Services, Global_values, Services_settings,
          Metadata, Custom_configs, Plugins, Selects, Jobs, Job_cache,
          Plugin_pages, sessions, calls, pre, last, out>>

\* the tables of the plugins, beside the settings table
plugin_tables == <<Plugins, Selects, Jobs, Job_cache, Plugin_pages>>

----------------------------------------------------------------------------
(* Strings *)

MULTISITE == <<"MULTISITE">>
SERVER_NAME == <<"SERVER", "NAME">>

\* int(): the digit strings of the model and the integers they denote
IntOf == ("0" :> 0) @@ ("1" :> 1) @@ ("2" :> 2) @@ ("3" :> 3)

\* str(suffix)
StrOf(suffix) == CHOOSE s \in DOMAIN IntOf : IntOf[s] = suffix

\* search(r"_\d+$", key): an underscore followed by digits ends the key
HasSuffix(key) == Len(key) >= 2 /\ key[Len(key)] \in DOMAIN IntOf

\* suffix = int(key.split("_")[-1]); key = key[: -len(str(suffix)) - 1]
ParseSuffix(key) ==
    IF HasSuffix(key)
    THEN [suffix |-> IntOf[key[Len(key)]], key |-> SubSeq(key, 1, Len(key) - 1)]
    ELSE [suffix |-> 0, key |-> key]

\* value.split(" "): "" splits into [""]
Split(value) == IF value = <<>> THEN <<"">> ELSE value

\* key.replace(f"{server_name}_", ""): every occurrence of the segment
\* server_name that is followed by an underscore is removed; with an empty
\* server_name every underscore is removed, which leaves a key of one
\* segment as it is and makes a longer key a name no setting has.
RECURSIVE Replace(_, _)
Replace(key, server_name) ==
    IF Len(key) <= 1 THEN key
    ELSE IF server_name = "" THEN <<"_joined_">>
    ELSE IF Head(key) = server_name THEN Replace(Tail(key), server_name)
    ELSE <<Head(key)>> \o Replace(Tail(key), server_name)

\* key.startswith(server_name)
StartsWith(key, server_name) ==
    server_name = "" \/ (Len(key) >= 1 /\ key[1] = server_name)

\* key in config, config[key]
Has(config, key) == \E i \in DOMAIN config : config[i].key = key
Get(config, key) == config[CHOOSE i \in DOMAIN config : config[i].key = key].value

\* query(...).first(): <<>> for None, <<row>> otherwise
First(rows) == IF rows = {} THEN <<>> ELSE <<CHOOSE r \in rows : TRUE>>

----------------------------------------------------------------------------
(* Rows *)

GlobalRow(setting_id, value, suffix, method) ==
    [table |-> "global_values", setting_id |-> setting_id, value |-> value,
     suffix |-> suffix, method |-> method]

ServiceRow(service_id, setting_id, value, suffix, method) ==
    [table |-> "services_settings", service_id |-> service_id,
     setting_id |-> setting_id, value |-> value, suffix |-> suffix,
     method |-> method]

ServicesRow(id) == [table |-> "services", id |-> id]

\* the store as one record
Db == [tables |-> tables, Settings |-> Settings, Services |-> Services,
       Global_values |-> Global_values,
       Services_settings |-> Services_settings, Metadata |-> Metadata,
       Custom_configs |-> Custom_configs, Plugins |-> Plugins,
       Selects |-> Selects, Jobs |-> Jobs, Job_cache |-> Job_cache,
       Plugin_pages |-> Plugin_pages]

----------------------------------------------------------------------------
(* save_config: the statements of one call act on a transaction t, the     *)
(* session's view of the two value tables together with the locals         *)
(* to_put, global_values and global_value of the function.                 *)

\* (mutant) the rows of the method are not retired
DeleteNothing(rows, method) == rows

\* session.query(T).filter(T.method == method).delete()
DeleteOldConfig(rows, method) == {r \in rows : r.method # method}

\* the session and the locals at the start of the loop
Begin(db, method) ==
    [Global_values |-> DeleteOldConfig(db.Global_values, method),
     Services_settings |-> DeleteOldConfig(db.Services_settings, method),
     to_put |-> <<>>,
     global_values |-> <<>>,
     global_value |-> [bound |-> FALSE, row |-> <<>>],
     raised |-> FALSE]

\* session.query(Settings).with_entities(Settings.default).filter_by(id=...).first()
SettingOf(db, id) == First({s \in db.Settings : s.id = id})

GlobalValueAt(t, key, suffix) ==
    First({r \in t.Global_values : r.setting_id = key /\ r.suffix = suffix})

ServiceSettingAt(t, server_name, key, suffix) ==
    First({r \in t.Services_settings :
              r.service_id = server_name /\ r.setting_id = key /\ r.suffix = suffix})

\* the rows a bulk delete or update of (key, suffix) leaves
DeleteGlobal(rows, key, suffix) ==
    {r \in rows : ~(r.setting_id = key /\ r.suffix = suffix)}

UpdateGlobal(rows, key, suffix, value, method) ==
    {IF r.setting_id = key /\ r.suffix = suffix
     THEN [r EXCEPT !.value = value, !.method = method] ELSE r : r \in rows}

DeleteService(rows, server_name, key, suffix) ==
    {r \in rows :
        ~(r.service_id = server_name /\ r.setting_id = key /\ r.suffix = suffix)}

UpdateService(rows, server_name, key, suffix, value, method) ==
    {IF r.service_id = server_name /\ r.setting_id = key /\ r.suffix = suffix
     THEN [r EXCEPT !.value = value, !.method = method] ELSE r : r \in rows}

\* (mutant) every method may change another method's row
MayOverrideAny(method) == TRUE

\* the method that may change or delete another method's row
MayOverride(method) == method = "autoconf"

\* the test that keeps a service value out of the store: it is the default,
\* or it repeats the global value submitted in the same config
Redundant(config, key, value, setting) ==
    key # SERVER_NAME
    /\ (value = setting.default \/ (Has(config, key) /\ value = Get(config, key)))

\* (mutant) a default value is stored like any other
NeverDefault(value, setting) == FALSE

\* the test that keeps a global value out of the store
IsDefault(value, setting) == value = setting.default

\* the service-scoped branch
ServiceBranch(t, config, method, server_name, key, suffix, value, setting) ==
    LET service_setting == ServiceSettingAt(t, server_name, key, suffix) IN
    IF service_setting = <<>>
    THEN IF Redundant(config, key, value, setting)
         THEN t
         ELSE [t EXCEPT !.to_put =
                  Append(@, ServiceRow(server_name, key, value, suffix, method))]
    ELSE IF MayOverride(method)
    THEN IF Redundant(config, key, value, setting)
         THEN [t EXCEPT !.Services_settings =
                  DeleteService(@, server_name, key, suffix)]
         \* global_value is the local the global branch last assigned: reading
         \* .value of it raises when it is unassigned or None
         ELSE IF ~t.global_value.bound \/ t.global_value.row = <<>>
         THEN [t EXCEPT !.raised = TRUE]
         ELSE IF t.global_value.row[1].value # value
         THEN [t EXCEPT !.Services_settings =
                  UpdateService(@, server_name, key, suffix, value, method)]
         ELSE t
    ELSE t

\* the global branch, taken for a key not yet in global_values
GlobalBranch(t, method, key, suffix, value, setting) ==
    LET global_value == GlobalValueAt(t, key, suffix)
        t1 == [t EXCEPT !.global_values = Append(@, key),
                        !.global_value = [bound |-> TRUE, row |-> global_value]]
    IN
    IF global_value = <<>>
    THEN IF IsDefault(value, setting)
         THEN t1
         ELSE [t1 EXCEPT !.to_put =
                  Append(@, GlobalRow(key, value, suffix, method))]
    ELSE IF MayOverride(method)
    THEN IF IsDefault(value, setting)
         THEN [t1 EXCEPT !.Global_values = DeleteGlobal(@, key, suffix)]
         ELSE IF global_value[1].value # value
         THEN [t1 EXCEPT !.Global_values =
                  UpdateGlobal(@, key, suffix, value, method)]
         ELSE t1
    ELSE t1

InList(key, list) == \E i \in DOMAIN list : list[i] = key

\* one iteration of "for key, value in deepcopy(config).items()"
MultisiteKey(db, t, config, method, server_name, item) ==
    LET p == ParseSuffix(item.key)
        setting == SettingOf(db, Replace(p.key, server_name))
    IN
    IF setting = <<>> THEN t
    ELSE IF server_name # "" /\ StartsWith(p.key, server_name)
    THEN ServiceBranch(t, config, method, server_name,
                       Replace(p.key, server_name), p.suffix, item.value,
                       setting[1])
    ELSE IF ~InList(p.key, t.global_values)
    THEN GlobalBranch(t, method, p.key, p.suffix, item.value, setting[1])
    ELSE t

RECURSIVE MultisiteKeys(_, _, _, _, _, _)
MultisiteKeys(db, t, config, method, server_name, i) ==
    IF t.raised \/ i > Len(config) THEN t
    ELSE MultisiteKeys(db,
                       MultisiteKey(db, t, config, method, server_name, config[i]),
                       config, method, server_name, i + 1)

\* "if server_name and ...first() is None: to_put.append(Services(id=server_name))"
EnsureService(db, t, server_name) ==
    IF server_name # "" /\ server_name \notin db.Services
    THEN [t EXCEPT !.to_put = Append(@, ServicesRow(server_name))]
    ELSE t

\* "for server_name in config["SERVER_NAME"].split(" ")"
RECURSIVE MultisiteServers(_, _, _, _, _, _)
MultisiteServers(db, t, config, method, names, n) ==
    IF t.raised \/ n > Len(names) THEN t
    ELSE MultisiteServers(db,
                          MultisiteKeys(db, EnsureService(db, t, names[n]),
                                        config, method, names[n], 1),
                          config, method, names, n + 1)

\* the multisite branch; config["SERVER_NAME"] raises KeyError without the key
Multisite(db, t, config, method) ==
    IF ~Has(config, SERVER_NAME) THEN [t EXCEPT !.raised = TRUE]
    ELSE MultisiteServers(db, t, config, method,
                          Split(Get(config, SERVER_NAME)), 1)

\* one iteration of the loop of the single-site branch
SingleSiteKey(db, t, method, item) ==
    LET p == ParseSuffix(item.key)
        setting == SettingOf(db, p.key)
        global_value == GlobalValueAt(t, p.key, p.suffix)
    IN
    IF setting # <<>> /\ item.value = setting[1].default THEN t
    ELSE IF global_value = <<>>
    THEN [t EXCEPT !.to_put =
             Append(@, GlobalRow(p.key, item.value, p.suffix, method))]
    ELSE IF global_value[1].method = method
    THEN [t EXCEPT !.Global_values =
             UpdateGlobal(@, p.key, p.suffix, item.value, method)]
    ELSE t

RECURSIVE SingleSiteKeys(_, _, _, _, _)
SingleSiteKeys(db, t, config, method, i) ==
    IF i > Len(config) THEN t
    ELSE SingleSiteKeys(db, SingleSiteKey(db, t, method, config[i]),
                        config, method, i + 1)

\* the single-site branch: the first server name is the only service, and
\* its Services row is put whether or not one is stored
SingleSite(db, t, config, method) ==
    IF ~Has(config, SERVER_NAME) THEN [t EXCEPT !.raised = TRUE]
    ELSE SingleSiteKeys(db,
            [t EXCEPT !.to_put =
                Append(@, ServicesRow(Split(Get(config, SERVER_NAME))[1]))],
            config, method, 1)

\* "if config:" and the choice of the mode; config["MULTISITE"] raises
\* KeyError without the key
Reconcile(db, t, config, method) ==
    IF config = <<>> THEN t
    ELSE IF ~Has(config, MULTISITE) THEN [t EXCEPT !.raised = TRUE]
    ELSE IF Get(config, MULTISITE) = <<"yes">> THEN Multisite(db, t, config, method)
    ELSE SingleSite(db, t, config, method)

----------------------------------------------------------------------------
(* The end of save_config: the metadata flag, the commit and the session *)

\* (mutant) the flag of the metadata row is inverted
FirstConfigInverted(metadata) ==
    IF metadata # <<>>
    THEN <<[metadata[1] EXCEPT !.first_config_saved = ~@]>>
    ELSE metadata

\* "if metadata is not None and not metadata.first_config_saved: ... = True"
FirstConfigSaved(metadata) ==
    IF metadata # <<>> /\ ~metadata[1].first_config_saved
    THEN <<[metadata[1] EXCEPT !.first_config_saved = TRUE]>>
    ELSE metadata

Pending(t, table) == SelectSeq(t.to_put, LAMBDA r : r.table = table)

\* the primary keys: services (id), global_values (setting_id, suffix),
\* services_settings (service_id, setting_id, suffix)
ServicesKeyClash(db, rows) ==
    \/ \E i \in DOMAIN rows : rows[i].id \in db.Services
    \/ \E i, j \in DOMAIN rows : i < j /\ rows[i].id = rows[j].id

GlobalKeyClash(t, rows) ==
    \/ \E i \in DOMAIN rows : GlobalValueAt(t, rows[i].setting_id, rows[i].suffix) # <<>>
    \/ \E i, j \in DOMAIN rows :
          i < j /\ rows[i].setting_id = rows[j].setting_id
                /\ rows[i].suffix = rows[j].suffix

ServiceKeyClash(t, rows) ==
    \/ \E i \in DOMAIN rows :
          ServiceSettingAt(t, rows[i].service_id, rows[i].setting_id,
                           rows[i].suffix) # <<>>
    \/ \E i, j \in DOMAIN rows :
          i < j /\ rows[i].service_id = rows[j].service_id
                /\ rows[i].setting_id = rows[j].setting_id
                /\ rows[i].suffix = rows[j].suffix

\* the flush of session.add_all(to_put) fails on a duplicate primary key
IntegrityError(db, t) ==
    \/ ServicesKeyClash(db, Pending(t, "services"))
    \/ GlobalKeyClash(t, Pending(t, "global_values"))
    \/ ServiceKeyClash(t, Pending(t, "services_settings"))

Range(rows) == {rows[i] : i \in DOMAIN rows}

\* the store once the transaction is committed
Committed(db, t) ==
    [db EXCEPT
        !.Services = @ \cup {r.id : r \in Range(Pending(t, "services"))},
        !.Global_values = t.Global_values \cup Range(Pending(t, "global_values")),
        !.Services_settings =
            t.Services_settings \cup Range(Pending(t, "services_settings")),
        !.Metadata = FirstConfigSaved(db.Metadata)]

\* (mutant) the deletes and updates of a failed call stay
RollbackKeepsDeletes(db, t) ==
    [db EXCEPT !.Global_values = t.Global_values,
               !.Services_settings = t.Services_settings]

\* session.rollback() in __db_session, and session.close() of a session that
\* did not commit: the store is the one the call found
Rollback(db, t) == db

Returned(db, ret) == [db |-> db, raised |-> FALSE, ret |-> ret]
Raised(db) == [db |-> db, raised |-> TRUE, ret |-> "unreturned"]

\* (mutant) the metadata flag is written although the commit failed
CommitKeepsFlag(db, t) ==
    IF IntegrityError(db, t)
    THEN Returned([db EXCEPT !.Metadata = FirstConfigSaved(db.Metadata)],
                  "traceback")
    ELSE Returned(Committed(db, t), "")

\* (mutant) the commit stores the rows of to_put whatever their keys
CommitUnchecked(db, t) == Returned(Committed(db, t), "")

\* "try: session.add_all(to_put); session.commit()
\*  except BaseException: return format_exc()" and "return """
Commit(db, t) ==
    IF IntegrityError(db, t)
    THEN Returned(Rollback(db, t), "traceback")
    ELSE Returned(Committed(db, t), "")

\* save_config(config, method) on the store db: the store it leaves and how
\* the call ends. Without the tables the first query raises.
save_config(db, config, method) ==
    IF ~db.tables THEN Raised(db)
    ELSE LET t == Reconcile(db, Begin(db, method), config, method) IN
         IF t.raised THEN Raised(Rollback(db, t)) ELSE Commit(db, t)

----------------------------------------------------------------------------
(* get_config and get_services_settings: a config is the function from    *)
(* its keys to its entries; an entry is the value, or with methods=True    *)
(* the record of the value and the method.                                 *)

Entry(value, method, methods) ==
    IF methods THEN [value |-> value, method |-> method] ELSE value

\* config[key] or config[key]["value"]
ValueOf(entry, methods) == IF methods THEN entry.value ELSE entry

\* config[key] = entry
Put(config, key, entry) == (key :> entry) @@ config

\* setting.id + (f"_{suffix}" if suffix > 0 else "")
SuffixedKey(key, suffix) == IF suffix > 0 THEN key \o <<StrOf(suffix)>> ELSE key

\* f"{service.id}_{key}"
ServiceKey(service, key) == <<service>> \o key

\* the global part of one pass of "while True": the stored global value, or
\* at suffix 0 the default of the setting
ProbeGlobal(db, config, setting, suffix, methods) ==
    LET global_value == GlobalValueAt(db, setting.id, suffix) IN
    IF global_value = <<>>
    THEN IF suffix = 0
         THEN Put(config, setting.id, Entry(setting.default, "default", methods))
         ELSE config
    ELSE Put(config, SuffixedKey(setting.id, suffix),
             Entry(global_value[1].value, global_value[1].method, methods))

\* (mutant) the key of the service is not seeded from the global key
SeedNothing(config, service, setting, suffix, methods) == config

\* the key of the service seeded from the global key, with method "default"
SeedService(config, service, setting, suffix, methods) ==
    LET key == SuffixedKey(setting.id, suffix) IN
    IF suffix = 0 \/ key \in DOMAIN config
    THEN Put(config, ServiceKey(service, key),
             Entry(ValueOf(config[key], methods), "default", methods))
    ELSE config

\* "elif suffix > 0: break": the loop stops at the first suffix above 0
\* at which the service has no row
StopsWithoutOverride(db, service, setting, suffix) ==
    suffix > 0 /\ ServiceSettingAt(db, service, setting.id, suffix) = <<>>

\* (mutant) the row of the service does not replace the seeded entry
OverlayNothing(db, config, service, setting, suffix, methods) == config

\* the row of the service, when there is one, replaces the seeded entry
OverlayService(db, config, service, setting, suffix, methods) ==
    LET service_setting == ServiceSettingAt(db, service, setting.id, suffix) IN
    IF service_setting = <<>> THEN config
    ELSE Put(config, ServiceKey(service, SuffixedKey(setting.id, suffix)),
             Entry(service_setting[1].value, service_setting[1].method, methods))

\* "suffix = 0; while True: ..." for one service and one setting
RECURSIVE ProbeSuffixes(_, _, _, _, _, _)
ProbeSuffixes(db, config, service, setting, suffix, methods) ==
    LET c1 == ProbeGlobal(db, config, setting, suffix, methods) IN
    IF setting.context # "multisite" THEN c1
    ELSE LET c2 == SeedService(c1, service, setting, suffix, methods)
             c3 == OverlayService(db, c2, service, setting, suffix, methods)
         IN IF StopsWithoutOverride(db, service, setting, suffix) THEN c3
            ELSE IF ~setting.multiple THEN c3
            ELSE ProbeSuffixes(db, c3, service, setting, suffix + 1, methods)

\* "for setting in session.query(Settings)...all()"
RECURSIVE ProbeSettings(_, _, _, _, _)
ProbeSettings(db, config, service, settings, methods) ==
    IF settings = {} THEN config
    ELSE LET setting == CHOOSE s \in settings : TRUE IN
         ProbeSettings(db, ProbeSuffixes(db, config, service, setting, 0, methods),
                       service, settings \ {setting}, methods)

\* "for service in session.query(Services)...all()"
RECURSIVE ProbeServices(_, _, _, _)
ProbeServices(db, config, services, methods) ==
    IF services = {} THEN config
    ELSE LET service == CHOOSE s \in services : TRUE IN
         ProbeServices(db, ProbeSettings(db, config, service, db.Settings, methods),
                       services \ {service}, methods)

\* get_config(methods): the keys are written within the loop over the
\* services, so that a store without service gives the empty config
get_config(db, methods) == ProbeServices(db, <<>>, db.Services, methods)

\* key.startswith(f"{service.id}_")
HasPrefix(key, service) == Len(key) >= 2 /\ key[1] = service

\* (mutant) the prefixed keys are copied to no key
StripNothing(config, service) == config

\* "for key, value in deepcopy(tmp_config).items(): if key.startswith(...):
\*  tmp_config[key.replace(f"{service.id}_", "")] = value"
StripPrefix(config, service) ==
    LET prefixed == {key \in DOMAIN config : HasPrefix(key, service)}
        stripped == {Replace(key, service) : key \in prefixed}
    IN [key \in DOMAIN config \cup stripped |->
           IF key \in stripped
           THEN config[CHOOSE k \in prefixed : Replace(k, service) = key]
           ELSE config[key]]

\* get_services_settings(methods): one config per row of the services
\* query, in the order of the rows
get_services_settings(db, methods, services) ==
    LET config == get_config(db, methods) IN
    [i \in DOMAIN services |-> StripPrefix(config, services[i])]

----------------------------------------------------------------------------
(* save_custom_configs. The content of a custom config is the sequence of  *)
(* its characters; a type is the sequence of its words and separators      *)
(* ("server-http" is <<"server", "-", "http">>). The service_id of a row   *)
(* is <<>> for NULL and <<id>> otherwise.                                  *)

\* value.replace("\\\n", "\n"): a backslash that a newline follows is removed
RECURSIVE Normalize(_)
Normalize(value) ==
    IF Len(value) < 2 THEN value
    ELSE IF value[1] = "\\" /\ value[2] = "\n"
    THEN <<"\n">> \o Normalize(SubSeq(value, 3, Len(value)))
    ELSE <<value[1]>> \o Normalize(Tail(value))

\* sha256(data).hexdigest(): the digest names the content it is taken of
\* (collisions of the hash are left out)
Sha256(data) == <<"sha256">> \o data

\* str.lower() on the words of the model
LowerCase == ("SERVER" :> "server") @@ ("HTTP" :> "http")

\* exploded[1].replace("-", "_").lower()
NormalizeType(type) ==
    [i \in DOMAIN type |->
        IF type[i] = "-" THEN "_"
        ELSE IF type[i] \in DOMAIN LowerCase THEN LowerCase[type[i]]
        ELSE type[i]]

\* config.get("service_id", None): set when exploded[0] is not empty
ServiceIdOf(custom_config) ==
    IF custom_config.exploded[1] # "" THEN <<custom_config.exploded[1]>>
    ELSE <<>>

\* the row an entry of custom_configs describes
CustomRow(custom_config, method) ==
    LET data == Normalize(custom_config.value) IN
    [service_id |-> ServiceIdOf(custom_config),
     type |-> NormalizeType(custom_config.exploded[2]),
     name |-> custom_config.exploded[3],
     data |-> data,
     checksum |-> Sha256(data),
     method |-> method]

SameCustomKey(r, config) ==
    r.service_id = config.service_id /\ r.type = config.type
    /\ r.name = config.name

\* session.query(Custom_configs)...filter_by(service_id, type, name).first()
CustomConfAt(t, config) ==
    First({r \in t.Custom_configs : SameCustomKey(r, config)})

\* (mutant) the content is written and the checksum is left
UpdateDataOnly(rows, config, method) ==
    {IF SameCustomKey(r, config) THEN [r EXCEPT !.data = config.data] ELSE r :
        r \in rows}

\* (mutant) the owner of the row is left when autoconf writes it
UpdateKeepsOwner(rows, config, method) ==
    {IF SameCustomKey(r, config)
     THEN [r EXCEPT !.data = config.data, !.checksum = config.checksum]
     ELSE r : r \in rows}

\* ".update({data, checksum} | ({method: "autoconf"} if method == "autoconf"
\* else {}))"
UpdateCustom(rows, config, method) ==
    {IF SameCustomKey(r, config)
     THEN [r EXCEPT !.data = config.data, !.checksum = config.checksum,
                    !.method = IF method = "autoconf" THEN "autoconf" ELSE @]
     ELSE r : r \in rows}

\* (mutant) every method may write the row of another method
MayWriteAny(method, custom_conf) == TRUE

\* "method == custom_conf.method or method == "autoconf""
MayWrite(method, custom_conf) ==
    method = custom_conf.method \/ method = "autoconf"

\* (mutant) an entry whose service is not stored is passed in silence
ServiceNotFoundSilent(db, t, custom_config) == t

\* the warning of an entry whose service is not stored
ServiceNotFound(db, t, custom_config) ==
    IF custom_config.exploded[1] # ""
       /\ custom_config.exploded[1] \notin db.Services
    THEN [t EXCEPT !.message =
             Append(@, <<"Service", custom_config.exploded[1], "not found">>)]
    ELSE t

\* one iteration of "for custom_config in custom_configs"
CustomConfig(db, t, custom_config, method) ==
    LET config == CustomRow(custom_config, method)
        t1 == ServiceNotFound(db, t, custom_config)
        custom_conf == CustomConfAt(t1, config)
    IN
    IF custom_conf = <<>>
    THEN [t1 EXCEPT !.to_put = Append(@, config)]
    ELSE IF config.checksum # custom_conf[1].checksum
            /\ MayWrite(method, custom_conf[1])
    THEN [t1 EXCEPT !.Custom_configs = UpdateCustom(@, config, method)]
    ELSE t1

RECURSIVE CustomConfigs(_, _, _, _, _)
CustomConfigs(db, t, custom_configs, method, i) ==
    IF i > Len(custom_configs) THEN t
    ELSE CustomConfigs(db, CustomConfig(db, t, custom_configs[i], method),
                       custom_configs, method, i + 1)

\* the key of the table: (service_id, type, name)
CustomKeyClash(t) ==
    \E i, j \in DOMAIN t.to_put : i < j /\ SameCustomKey(t.to_put[i], t.to_put[j])

\* the service_id of a row names no stored service: the row is stored all
\* the same ("the row may be orphaned")
OrphanRefused(db, t) == FALSE

\* the result of a call with the writes its commit made durable: the rows
\* the bulk delete removed and the rows of to_put
Wrote(r, deleted, put) ==
    [db |-> r.db, raised |-> r.raised, ret |-> r.ret,
     deleted |-> deleted, put |-> put]

\* save_custom_configs(custom_configs, method) on the store db: the rows of
\* the method are deleted, the entries are reconciled, and the commit
\* either stores the result or fails and leaves the store as it was; the
\* message is the sequence of its lines
save_custom_configs(db, custom_configs, method) ==
    IF ~db.tables THEN Wrote(Raised(db), {}, {})
    ELSE LET kept == DeleteOldConfig(db.Custom_configs, method)
             t == CustomConfigs(db,
                      [Custom_configs |-> kept,
                       to_put |-> <<>>, message |-> <<>>],
                      custom_configs, method, 1)
         IN IF CustomKeyClash(t) \/ OrphanRefused(db, t)
            THEN Wrote(Returned(db, Append(t.message, <<"traceback">>)),
                       {}, {})
            ELSE Wrote(Returned([db EXCEPT !.Custom_configs =
                                    t.Custom_configs \cup Range(t.to_put)],
                                t.message),
                       db.Custom_configs \ kept, Range(t.to_put))

----------------------------------------------------------------------------
(* update_external_plugins. A plugin descriptor is a record of id, order,  *)
(* name, description, version, settings, jobs and pages; settings is the   *)
(* sequence of the items of the dict, each with the id it is keyed by and  *)
(* the list of its select values. The attributes name, help, label, regex   *)
(* and type of a setting are left out.                                     *)

RECURSIVE Concat(_)
Concat(seqs) ==
    IF seqs = <<>> THEN <<>> ELSE Head(seqs) \o Concat(Tail(seqs))

\* Plugins(**plugin): external is FALSE unless the descriptor sets it
PluginRow(plugin) ==
    [table |-> "plugins", id |-> plugin.id, order |-> plugin.order,
     name |-> plugin.name, description |-> plugin.description,
     version |-> plugin.version,
     external |-> IF "external" \in DOMAIN plugin THEN plugin.external
                  ELSE FALSE]

\* Settings(**value) after value.update({"plugin_id": ..., "id": setting})
SettingRow(plugin_id, value) ==
    [table |-> "settings", id |-> value.id, plugin_id |-> plugin_id,
     default |-> value.default, context |-> value.context,
     multiple |-> value.multiple]

\* Selects(setting_id=value["id"], value=select)
SelectRow(setting_id, select) ==
    [table |-> "selects", setting_id |-> setting_id, value |-> select]

\* Jobs(plugin_id=plugin["id"], **job)
JobRow(plugin_id, job) ==
    [table |-> "jobs", plugin_id |-> plugin_id, name |-> job.name,
     file |-> job.file, every |-> job.every, reload |-> job.reload]

\* Plugin_pages(plugin_id, template_file, template_checksum, actions_file,
\* actions_checksum)
PageRow(plugin_id, page) ==
    [table |-> "plugin_pages", plugin_id |-> plugin_id,
     template_file |-> page.template_file,
     template_checksum |-> Sha256(page.template_file),
     actions_file |-> page.actions_file,
     actions_checksum |-> Sha256(page.actions_file)]

\* "for setting, value in settings.items()": the selects of the setting,
\* then the setting
SettingRows(plugin_id, settings) ==
    Concat([i \in DOMAIN settings |->
               [j \in DOMAIN settings[i].select |->
                   SelectRow(settings[i].id, settings[i].select[j])]
               \o <<SettingRow(plugin_id, settings[i])>>])

\* "for job in jobs"
JobRows(plugin_id, jobs) ==
    [i \in DOMAIN jobs |-> JobRow(plugin_id, jobs[i])]

\* "for page in pages"
PageRows(plugin_id, pages) ==
    [i \in DOMAIN pages |-> PageRow(plugin_id, pages[i])]

\* (mutant) the query of the stored plugins has no filter
AnyPlugins(db) == {r.id : r \in db.Plugins}

\* session.query(Plugins).with_entities(Plugins.id).filter_by(external=True)
ExternalPlugins(db) == {r.id : r \in {p \in db.Plugins : p.external}}

\* (mutant) one of the stored plugins that the list does not name
OneMissingId(db_plugins, plugins) ==
    LET missing == {id \in db_plugins :
                       \A i \in DOMAIN plugins : plugins[i].id # id}
    IN IF missing = {} THEN {} ELSE {CHOOSE id \in missing : TRUE}

\* "missing_ids = [plugin.id for plugin in db_plugins if plugin.id not in
\* ids]"
MissingIds(db_plugins, plugins) ==
    {id \in db_plugins : \A i \in DOMAIN plugins : plugins[i].id # id}

\* the rows that go with a deleted plugin: its settings, their selects, its
\* jobs and its pages
Cascade(t, missing_ids) ==
    LET settings == {r \in t.Settings : r.plugin_id \in missing_ids} IN
    [t EXCEPT
        !.Settings = @ \ settings,
        !.Selects = {r \in @ : \A s \in settings : r.setting_id # s.id},
        !.Jobs = {r \in @ : r.plugin_id \notin missing_ids},
        !.Plugin_pages = {r \in @ : r.plugin_id \notin missing_ids}]

\* "session.query(Plugins).filter(Plugins.id.in_(missing_ids)).delete()"
DeletePlugins(t, missing_ids) ==
    [Cascade(t, missing_ids) EXCEPT
        !.Plugins = {r \in @ : r.id \notin missing_ids}]

\* "db_ids = []": nothing is appended to the list afterwards
db_ids == <<>>

\* (mutant) the descriptor is left as it was submitted
LeaveExternal(plugin) == plugin

\* plugin["external"] = True
MarkExternal(plugin) == [external |-> TRUE] @@ plugin

\* "updates" of the plugin: the fields that differ are written
UpdatePlugin(t, plugin) ==
    [t EXCEPT !.Plugins =
        {IF r.id = plugin.id
         THEN [r EXCEPT !.order = plugin.order, !.name = plugin.name,
                        !.description = plugin.description,
                        !.version = plugin.version]
         ELSE r : r \in @}]

\* the selects of a stored setting: the values that are no longer listed
\* are deleted, whatever their setting, and the values that are not stored
\* are added
DiffSelects(t, value) ==
    LET listed == Range(value.select)
        kept == {r \in t.Selects : r.value \in listed}
    IN [t EXCEPT
           !.Selects = {r \in @ : r.setting_id # value.id \/ r \in kept},
           !.to_put = @ \o SelectSeq(
               [j \in DOMAIN value.select |->
                   SelectRow(value.id, value.select[j])],
               LAMBDA r : r \notin kept)]

\* one iteration of "for setting, value in settings.items()" for a stored
\* plugin
DiffSetting(t, plugin, value) ==
    LET db_setting == First({r \in t.Settings : r.id = value.id}) IN
    IF ~InList(value.id, db_ids) \/ db_setting = <<>>
    THEN [t EXCEPT !.to_put = @ \o SettingRows(plugin.id, <<value>>)]
    ELSE DiffSelects(
            [t EXCEPT !.Settings =
                {IF r.id = value.id
                 THEN [r EXCEPT !.context = value.context,
                                !.default = value.default,
                                !.multiple = value.multiple]
                 ELSE r : r \in @}],
            value)

RECURSIVE DiffSettings(_, _, _)
DiffSettings(t, plugin, i) ==
    IF i > Len(plugin.settings) THEN t
    ELSE DiffSettings(DiffSetting(t, plugin, plugin.settings[i]), plugin, i + 1)

\* one iteration of "for job in jobs" for a stored plugin: a job that
\* changes loses its cache
DiffJob(t, plugin, job) ==
    LET db_job == First({r \in t.Jobs : r.name = job.name}) IN
    IF ~InList(job.name, db_ids) \/ db_job = <<>>
    THEN [t EXCEPT !.to_put = Append(@, JobRow(plugin.id, job))]
    ELSE IF job.file # db_job[1].file \/ job.every # db_job[1].every
            \/ job.reload # db_job[1].reload
    THEN [t EXCEPT
             !.Job_cache = {r \in @ : r.job_name # job.name},
             !.Jobs = {IF r.name = job.name
                       THEN [r EXCEPT !.file = job.file, !.every = job.every,
                                      !.reload = job.reload]
                       ELSE r : r \in @}]
    ELSE t

RECURSIVE DiffJobs(_, _, _)
DiffJobs(t, plugin, i) ==
    IF i > Len(plugin.jobs) THEN t
    ELSE DiffJobs(DiffJob(t, plugin, plugin.jobs[i]), plugin, i + 1)

\* the plugins with a ui directory under /usr/share/bunkerweb/core that
\* holds template.html and actions.py, and the content of the two files
CoreUi == {"general"}
UiFiles == [template_file |-> <<"t">>, actions_file |-> <<"a">>]

\* the page of a stored plugin is read from the ui directory of the plugin
DiffPage(t, plugin) ==
    IF plugin.id \notin CoreUi THEN t
    ELSE IF \A r \in t.Plugin_pages : r.plugin_id # plugin.id
    THEN [t EXCEPT !.to_put = Append(@, PageRow(plugin.id, UiFiles))]
    ELSE [t EXCEPT !.Plugin_pages =
             {IF r.plugin_id = plugin.id THEN PageRow(plugin.id, UiFiles)
              ELSE r : r \in @}]

\* the branch of a plugin that is stored and external: the plugin, its
\* settings, jobs and page are compared with the stored ones
DiffPlugin(t, plugin) ==
    LET t1 == UpdatePlugin(t, plugin)
        t2 == [t1 EXCEPT !.Settings =
                  {r \in @ : r.plugin_id # plugin.id
                             \/ \E i \in DOMAIN plugin.settings :
                                   plugin.settings[i].id = r.id}]
        t3 == DiffSettings(t2, plugin, 1)
        t4 == [t3 EXCEPT !.Jobs =
                  {r \in @ : r.plugin_id # plugin.id
                             \/ \E i \in DOMAIN plugin.jobs :
                                   plugin.jobs[i].name = r.name}]
    IN DiffPage(DiffJobs(t4, plugin, 1), plugin)

\* the rows of a plugin that is added: "to_put.append(Plugins(**plugin))"
\* and what follows it
InsertPlugin(t, plugin) ==
    [t EXCEPT !.to_put =
        @ \o <<PluginRow(plugin)>>
          \o SettingRows(plugin.id, plugin.settings)
          \o JobRows(plugin.id, plugin.jobs)
          \o PageRows(plugin.id, plugin.pages)]

\* one iteration of "for plugin in plugins"
ExternalPlugin(t, submitted) ==
    LET plugin == MarkExternal(submitted)
        db_plugin == First({r \in t.Plugins : r.id = plugin.id})
    IN
    IF InList(plugin.id, db_ids) /\ db_plugin # <<>>
    THEN IF ~db_plugin[1].external
         THEN [t EXCEPT !.warnings = Append(@, plugin.id)]
         ELSE DiffPlugin(t, plugin)
    ELSE InsertPlugin(t, plugin)

RECURSIVE ExternalPluginsOf(_, _, _)
ExternalPluginsOf(t, plugins, i) ==
    IF i > Len(plugins) THEN t
    ELSE ExternalPluginsOf(ExternalPlugin(t, plugins[i]), plugins, i + 1)

\* the keys of the tables: plugins (id), settings (id), selects
\* (setting_id, value), jobs (plugin_id, name), plugin_pages (plugin_id)
KeyOf(r) ==
    CASE r.table = "plugins" -> <<r.id>>
      [] r.table = "settings" -> <<r.id>>
      [] r.table = "selects" -> <<r.setting_id, r.value>>
      [] r.table = "jobs" -> <<r.plugin_id, r.name>>
      [] r.table = "plugin_pages" -> <<r.plugin_id>>

PluginKeyClash(t) ==
    \E table \in {"plugins", "settings", "selects", "jobs", "plugin_pages"} :
        LET rows == Pending(t, table)
            stored == CASE table = "plugins" -> t.Plugins
                        [] table = "settings" -> t.Settings
                        [] table = "selects" -> t.Selects
                        [] table = "jobs" -> t.Jobs
                        [] table = "plugin_pages" -> t.Plugin_pages
        IN \/ \E i \in DOMAIN rows, r \in stored : KeyOf(r) = KeyOf(rows[i])
           \/ \E i, j \in DOMAIN rows :
                 i < j /\ KeyOf(rows[i]) = KeyOf(rows[j])

\* (mutant) the deletes and updates of a failed call stay
KeepsPluginDeletes(db, t) ==
    [db EXCEPT !.Plugins = t.Plugins, !.Settings = t.Settings,
               !.Selects = t.Selects, !.Jobs = t.Jobs,
               !.Job_cache = t.Job_cache, !.Plugin_pages = t.Plugin_pages]

\* "return format_exc()" inside the with block: the session is closed
\* without a commit and the store is the one the call found
RollbackPlugins(db, t) == db

\* session.add_all(to_put); session.commit()
CommitPlugins(db, t) ==
    IF PluginKeyClash(t)
    THEN Returned(RollbackPlugins(db, t), "traceback")
    ELSE Returned(
            [db EXCEPT
                !.Plugins = t.Plugins \cup Range(Pending(t, "plugins")),
                !.Settings = t.Settings \cup Range(Pending(t, "settings")),
                !.Selects = t.Selects \cup Range(Pending(t, "selects")),
                !.Jobs = t.Jobs \cup Range(Pending(t, "jobs")),
                !.Job_cache = t.Job_cache,
                !.Plugin_pages =
                    t.Plugin_pages \cup Range(Pending(t, "plugin_pages"))],
            "")

\* the result of a call with the warnings it logged
Logged(r, warnings) ==
    [db |-> r.db, raised |-> r.raised, ret |-> r.ret, warnings |-> warnings]

\* update_external_plugins(plugins) on the store db
update_external_plugins(db, plugins) ==
    IF ~db.tables THEN Logged(Raised(db), <<>>)
    ELSE LET t0 == [Plugins |-> db.Plugins, Settings |-> db.Settings,
                    Selects |-> db.Selects, Jobs |-> db.Jobs,
                    Job_cache |-> db.Job_cache,
                    Plugin_pages |-> db.Plugin_pages,
                    to_put |-> <<>>, warnings |-> <<>>]
             t1 == DeletePlugins(t0, MissingIds(ExternalPlugins(db), plugins))
             t == ExternalPluginsOf(t1, plugins, 1)
         IN Logged(CommitPlugins(db, t), t.warnings)

\* update_job_cache(job_name, service_id, file_name, data, checksum): the
\* row of the key is added or rewritten
update_job_cache(db, job_name, service_id, file_name, data, checksum) ==
    LET row == [job_name |-> job_name, service_id |-> service_id,
                file_name |-> file_name, data |-> data,
                last_update |-> "now", checksum |-> checksum]
    IN [db EXCEPT !.Job_cache =
           {r \in @ : ~(/\ r.job_name = job_name
                        /\ r.service_id = service_id
                        /\ r.file_name = file_name)} \cup {row}]

----------------------------------------------------------------------------
(* Bootstrap *)

\* the settings init_tables is given (the catalog of the core plugin)
DefaultSettings ==
    << [id |-> MULTISITE, default |-> <<"no">>, context |-> "global",
        multiple |-> FALSE, select |-> <<"yes", "no">>],
       [id |-> SERVER_NAME, default |-> <<"www.example.com">>,
        context |-> "multisite", multiple |-> FALSE, select |-> <<>>],
       [id |-> <<"K">>, default |-> <<"d">>, context |-> "multisite",
        multiple |-> TRUE, select |-> <<>>] >>

\* default_settings: the descriptor of the core plugin, with a job
DefaultPlugins ==
    << [id |-> "general", order |-> "1", name |-> "General",
        description |-> "", version |-> "1", settings |-> DefaultSettings,
        jobs |-> <<[name |-> "jb", file |-> "jb.py", every |-> "day",
                    reload |-> FALSE]>>] >>

\* the rows init_tables adds for the plugins of default_settings
init_tables(default_settings) ==
    Concat([i \in DOMAIN default_settings |->
               LET plugin == default_settings[i] IN
               <<PluginRow(plugin)>>
               \o SettingRows(plugin.id, plugin.settings)
               \o JobRows(plugin.id, plugin.jobs)
               \o (IF plugin.id \in CoreUi
                   THEN <<PageRow(plugin.id, UiFiles)>> ELSE <<>>)])

----------------------------------------------------------------------------
(* Inputs *)

Item(key, value) == [key |-> key, value |-> value]

K == <<"K">>
U == <<"U">>

Methods == {"manual", "scheduler", "autoconf"}

Header(multisite, server_name) ==
    <<Item(MULTISITE, multisite), Item(SERVER_NAME, server_name)>>

Singles(keys, values) == {<<Item(k, v)>> : k \in keys, v \in values}

\* the items that follow the header of a multisite config: global keys, the
\* second instance of the multiple setting, keys of service a
MultisiteItems ==
    {<<>>}
    \cup Singles({K, <<"a", "K">>}, {<<"d">>, <<"v">>, <<"w">>})
    \cup Singles({<<"K", "1">>}, {<<"v">>, <<"w">>})
    \cup Singles({<<"a", "SERVER", "NAME">>}, {<<"www.example.com">>})
    \cup {<<Item(K, <<"v">>), i>> :
            i \in {Item(<<"a", "K">>, <<"v">>), Item(<<"a", "K">>, <<"w">>),
                   Item(<<"K", "1">>, <<"w">>)}}

\* the items that follow the header of a single-site config: a known key,
\* an unknown key, the same setting instance twice
SingleSiteItems ==
    {<<>>}
    \cup Singles({K}, {<<"d">>, <<"v">>, <<"w">>})
    \cup Singles({U}, {<<"v">>})
    \cup {<<Item(K, <<"v">>), Item(<<"K", "0">>, <<"w">>)>>}

\* the configs of the model: the empty config, configs without MULTISITE or
\* SERVER_NAME, multisite configs of services a and b (one with the service
\* key ahead of the header), single-site configs of service c
Configs ==
    {<<>>, <<Item(K, <<"v">>)>>, <<Item(MULTISITE, <<"yes">>)>>}
    \cup {Header(<<"yes">>, <<"a", "b">>) \o i : i \in MultisiteItems}
    \cup {<<Item(<<"a", "K">>, <<"w">>)>> \o Header(<<"yes">>, <<"a", "b">>)}
    \cup {Header(<<"no">>, <<"c">>) \o i : i \in SingleSiteItems}

\* the configs of the runs with three methods
OwnerConfigs ==
    {<<>>}
    \cup {Header(<<"yes">>, <<"a", "b">>) \o i :
            i \in Singles({K, <<"a", "K">>}, {<<"d">>, <<"v">>, <<"w">>})}
    \cup {Header(<<"no">>, <<"c">>) \o i : i \in Singles({K}, {<<"v">>, <<"w">>})}

\* the configs of the runs that read the store: multisite configs of
\* services a and b with global keys, keys of service a and unknown keys,
\* single-site configs of service a with three instances of the multiple
\* setting
ReadConfigs ==
    {Header(<<"yes">>, <<"a", "b">>) \o i :
        i \in {<<>>}
               \cup Singles({K, <<"a", "K">>, <<"K", "1">>, <<"a", "K", "1">>},
                            {<<"v">>, <<"w">>})
               \cup Singles({U, <<"a", "U">>}, {<<"v">>})
               \cup {<<Item(K, <<"v">>), i>> :
                       i \in {Item(<<"a", "K">>, <<"v">>),
                              Item(<<"a", "K">>, <<"w">>),
                              Item(<<"K", "1">>, <<"w">>)}}}
    \cup {Header(<<"no">>, <<"a">>) \o i :
            i \in {<<>>, <<Item(U, <<"v">>)>>,
                   <<Item(K, <<"v">>), Item(<<"K", "1">>, <<"w">>),
                     Item(<<"K", "2">>, <<"x">>)>>}}

CustomEntry(service, type, name, value) ==
    [value |-> value, exploded |-> <<service, type, name>>]

\* contents: one line, and two lines joined with and without a continuation
OneLine == <<"x">>
Continued == <<"x", "\\", "\n", "y">>
TwoLines == <<"x", "\n", "y">>

\* the lists of custom configs of the model: configs of no service, of the
\* stored service a and of a service z that is never stored, the same key
\* twice in one list, the same type written in two ways
CustomLists ==
    {<<>>}
    \cup {<<CustomEntry("", <<"http">>, "n", v)>> :
            v \in {OneLine, Continued, TwoLines}}
    \cup {<<CustomEntry("a", <<"server", "-", "http">>, "n", OneLine)>>,
          <<CustomEntry("a", <<"SERVER", "_", "HTTP">>, "n", Continued)>>,
          <<CustomEntry("z", <<"http">>, "n", OneLine)>>,
          <<CustomEntry("", <<"http">>, "n", OneLine),
            CustomEntry("", <<"http">>, "n", Continued)>>,
          <<CustomEntry("a", <<"server", "-", "http">>, "n", OneLine),
            CustomEntry("a", <<"SERVER", "_", "HTTP">>, "n", TwoLines)>>,
          <<CustomEntry("", <<"http">>, "n", Continued),
            CustomEntry("z", <<"http">>, "n", TwoLines)>>,
          <<CustomEntry("z", <<"http">>, "n", Continued),
            CustomEntry("a", <<"server", "-", "http">>, "n", TwoLines)>>}

\* a descriptor of an external plugin
Manifest(id, version, settings, jobs, pages) ==
    [id |-> id, order |-> "5", name |-> id, description |-> "",
     version |-> version, settings |-> settings, jobs |-> jobs,
     pages |-> pages]

\* the setting, the job and the page of plugin p
SettingP ==
    [id |-> <<"P">>, default |-> <<"d">>, context |-> "multisite",
     multiple |-> FALSE, select |-> <<"x", "y">>]
JobP == [name |-> "jp", file |-> "jp.py", every |-> "hour", reload |-> TRUE]
PageP == [template_file |-> <<"p">>, actions_file |-> <<"q">>]

\* plugin p in two versions, plugin q, plugin q declaring the setting K of
\* the core plugin, and a descriptor with the id of the core plugin
P1 == Manifest("p", "1", <<SettingP>>, <<JobP>>, <<PageP>>)
P2 == Manifest("p", "2", <<SettingP>>, <<JobP>>, <<PageP>>)
Q == Manifest("q", "1", <<>>, <<>>, <<>>)
QK == Manifest("q", "1",
               <<[id |-> K, default |-> <<"e">>, context |-> "global",
                  multiple |-> FALSE, select |-> <<"z">>]>>, <<>>, <<>>)
General == Manifest("general", "9", <<>>, <<>>, <<>>)

\* the lists of descriptors of the model: the empty list, one plugin, two
\* plugins, the same plugin twice, a list that names the core plugin
ManifestLists ==
    {<<>>, <<P1>>, <<P2>>, <<Q>>, <<P1, Q>>, <<P1, P1>>, <<QK>>,
     <<General>>, <<General, Q>>}

\* the jobs whose cache is written
CachedJobs == {"jb", "jp"}

\* the inputs of the runs that mix the three writers: a single-site config
\* that succeeds once, one that names an instance twice, a custom config, a
\* list with one key twice, a new plugin and the core plugin
MixedConfigs ==
    {<<>>, Header(<<"no">>, <<"c">>),
     Header(<<"no">>, <<"c">>) \o <<Item(K, <<"v">>), Item(<<"K", "0">>, <<"w">>)>>}
MixedCustomLists ==
    {<<>>, <<CustomEntry("", <<"http">>, "n", OneLine)>>,
     <<CustomEntry("", <<"http">>, "n", OneLine),
       CustomEntry("", <<"http">>, "n", Continued)>>}
MixedManifestLists == {<<>>, <<Q>>, <<General>>}

\* a plugin that declares the setting G, of context global and multiple,
\* and the configs that submit instances of G
G == <<"G">>
PG == Manifest("g", "1",
               <<[id |-> G, default |-> <<"d">>, context |-> "global",
                  multiple |-> TRUE, select |-> <<>>]>>, <<>>, <<>>)
GlobalConfigs ==
    {Header(<<"no">>, <<"a">>) \o i :
        i \in {<<>>, <<Item(G, <<"v">>)>>, <<Item(<<"G", "1">>, <<"w">>)>>,
               <<Item(G, <<"v">>), Item(<<"G", "1">>, <<"w">>)>>,
               <<Item(G, <<"w">>), Item(<<"G", "1">>, <<"x">>),
                 Item(<<"G", "2">>, <<"v">>)>>}}
    \cup {Header(<<"yes">>, <<"a", "b">>) \o i :
            i \in {<<>>, <<Item(G, <<"v">>), Item(<<"G", "1">>, <<"w">>)>>}}

\* the configs of two concurrent calls: the empty config, multisite configs
\* of service a that submit the global key K, a single-site config
RaceConfigs ==
    {<<>>,
     Header(<<"yes">>, <<"a">>) \o <<Item(K, <<"v">>)>>,
     Header(<<"yes">>, <<"a">>) \o <<Item(K, <<"w">>)>>,
     Header(<<"no">>, <<"a">>) \o <<Item(K, <<"v">>)>>}
RaceMethods == {"manual", "autoconf"}

\* the configs that store the service of the custom configs
ServiceConfigs == {Header(<<"yes">>, <<"a">>)}

\* a recorded call is repeated at most MaxRetries times
MaxRetries == 1

\* the two concurrent callers of save_config, and a caller that has not
\* opened its session
SessionIds == {1, 2}
NoWrites == [gone |-> {}, changed |-> {}]
NoSession == [pc |-> "idle", config |-> <<>>, method |-> "", n |-> 1, i |-> 1,
              t |-> <<>>, g |-> NoWrites, s |-> NoWrites, serial |-> FALSE,
              raised |-> FALSE, ret |-> ""]

NoCall == [op |-> "none", config |-> <<>>, method |-> "", raised |-> FALSE,
           ret |-> "", earlier |-> <<>>]

NoRead == [op |-> "none"]

----------------------------------------------------------------------------
(* The state machine. The operations reach every store the inputs lead     *)
(* to; pre and last record one call of save_config, made at any point, and *)
(* its repetitions: the recorded calls end the run (calls = 0 guards every *)
(* other operation).                                                       *)

\* the store after __init__: the engine is connected, nothing is created
Init ==
    /\ tables = FALSE
    /\ Settings = {}
    /\ Services = {}
    /\ Global_values = {}
    /\ Services_settings = {}
    /\ Metadata = <<>>
    /\ Custom_configs = {}
    /\ Plugins = {}
    /\ Selects = {}
    /\ Jobs = {}
    /\ Job_cache = {}
    /\ Plugin_pages = {}
    /\ sessions = [id \in SessionIds |-> NoSession]
    /\ calls = 0
    /\ pre = Db
    /\ last = NoCall
    /\ out = NoRead

\* init_tables(default_settings): returns (False, "") when the tables exist,
\* else creates them and stores the plugins of default_settings with their
\* settings, selects, jobs and pages
InitTables ==
    /\ calls = 0
    /\ ~tables
    /\ tables' = TRUE
    /\ \E to_put \in {init_tables(DefaultPlugins)} :
          /\ Plugins' = Range(Pending([to_put |-> to_put], "plugins"))
          /\ Settings' = Range(Pending([to_put |-> to_put], "settings"))
          /\ Selects' = Range(Pending([to_put |-> to_put], "selects"))
          /\ Jobs' = Range(Pending([to_put |-> to_put], "jobs"))
          /\ Plugin_pages' = Range(Pending([to_put |-> to_put], "plugin_pages"))
    /\ UNCHANGED <<Services, Global_values, Services_settings, Metadata,
                   Custom_configs, Job_cache, sessions, calls, pre, last,
                   out>>

\* initialize_db(version, integration): adds the metadata row (the first
\* initialization; the row is created once)
InitializeDb ==
    /\ calls = 0
    /\ tables
    /\ Metadata = <<>>
    /\ Metadata' = <<[is_initialized |-> TRUE, first_config_saved |-> FALSE]>>
    /\ UNCHANGED <<tables, Settings, Services, Global_values,
                   Services_settings, Custom_configs, plugin_tables,
                   sessions, calls, pre, last, out>>

\* one call of save_config on the store
Call(config, method, recorded) ==
    \E r \in {save_config(Db, config, method)} :
    /\ Services' = r.db.Services
    /\ Global_values' = r.db.Global_values
    /\ Services_settings' = r.db.Services_settings
    /\ Metadata' = r.db.Metadata
    /\ UNCHANGED <<tables, Settings, Custom_configs, plugin_tables,
                   sessions>>
    /\ out' = NoRead
    /\ IF recorded
       THEN /\ calls' = calls + 1
            /\ pre' = Db
            /\ last' = [op |-> "save_config", config |-> config,
                        method |-> method, raised |-> r.raised, ret |-> r.ret,
                        earlier |-> IF calls = 0 THEN <<>>
                                    ELSE Append(last.earlier,
                                                [raised |-> last.raised,
                                                 ret |-> last.ret])]
       ELSE UNCHANGED <<calls, pre, last>>

SaveConfig(config, method) ==
    /\ calls = 0
    /\ \E recorded \in BOOLEAN : Call(config, method, recorded)

\* the caller repeats the recorded call with the same arguments
Retry ==
    /\ calls >= 1
    /\ calls <= MaxRetries
    /\ last.op = "save_config"
    /\ Call(last.config, last.method, TRUE)

Next ==
    \/ InitTables
    \/ InitializeDb
    \/ \E config \in Configs, method \in {"manual", "autoconf"} :
          SaveConfig(config, method)
    \/ Retry

Spec == Init /\ [][Next]_vars

NextOwners ==
    \/ InitTables
    \/ InitializeDb
    \/ \E config \in OwnerConfigs, method \in Methods : SaveConfig(config, method)
    \/ Retry

SpecOwners == Init /\ [][NextOwners]_vars

\* the orders in which a query without ORDER BY may return the services
Orders(services) ==
    {order \in [1 .. Cardinality(services) -> services] :
        \A i, j \in DOMAIN order : i # j => order[i] # order[j]}

\* one call of get_config; without the tables the query raises. A run reads
\* the store once, at its end (a second read returns what the first did).
GetConfig(methods) ==
    /\ out = NoRead
    /\ out' = [op |-> "get_config", methods |-> methods, raised |-> ~tables,
               ret |-> IF tables THEN get_config(Db, methods) ELSE <<>>]
    /\ UNCHANGED <<tables, Settings, Services, Global_values,
                   Services_settings, Metadata, Custom_configs,
                   plugin_tables, sessions, calls, pre, last>>

\* one call of get_services_settings
GetServicesSettings(methods) ==
    /\ out = NoRead
    /\ \E order \in Orders(Services) :
          out' = [op |-> "get_services_settings", methods |-> methods,
                  services |-> order, raised |-> ~tables,
                  ret |-> IF tables
                          THEN get_services_settings(Db, methods, order)
                          ELSE <<>>]
    /\ UNCHANGED <<tables, Settings, Services, Global_values,
                   Services_settings, Metadata, Custom_configs,
                   plugin_tables, sessions, calls, pre, last>>

\* the runs that write configs and read the store
NextRead ==
    \/ InitTables
    \/ /\ out = NoRead
       /\ \E config \in ReadConfigs, method \in {"manual", "autoconf"} :
             SaveConfig(config, method)
    \/ \E methods \in BOOLEAN : GetConfig(methods)
    \/ \E methods \in BOOLEAN : GetServicesSettings(methods)

SpecRead == Init /\ [][NextRead]_vars

\* one call of save_custom_configs on the store
CallCustom(custom_configs, method, recorded) ==
    \E r \in {save_custom_configs(Db, custom_configs, method)} :
    /\ Custom_configs' = r.db.Custom_configs
    /\ UNCHANGED <<tables, Settings, Services, Global_values,
                   Services_settings, Metadata, plugin_tables, sessions>>
    /\ out' = NoRead
    /\ IF recorded
       THEN /\ calls' = calls + 1
            /\ pre' = Db
            /\ last' = [op |-> "save_custom_configs",
                        config |-> custom_configs, method |-> method,
                        raised |-> r.raised, ret |-> r.ret,
                        deleted |-> r.deleted, put |-> r.put,
                        earlier |-> IF calls = 0 THEN <<>>
                                    ELSE Append(last.earlier,
                                                [raised |-> last.raised,
                                                 ret |-> last.ret])]
       ELSE UNCHANGED <<calls, pre, last>>

SaveCustomConfigs(custom_configs, method) ==
    /\ calls = 0
    /\ \E recorded \in BOOLEAN : CallCustom(custom_configs, method, recorded)

\* the caller repeats the recorded call of save_custom_configs
RetryCustom ==
    /\ calls >= 1
    /\ calls <= MaxRetries
    /\ last.op = "save_custom_configs"
    /\ CallCustom(last.config, last.method, TRUE)

\* the runs that write custom configs
NextCustom ==
    \/ InitTables
    \/ \E config \in ServiceConfigs : SaveConfig(config, "manual")
    \/ \E custom_configs \in CustomLists, method \in Methods :
          SaveCustomConfigs(custom_configs, method)
    \/ RetryCustom

SpecCustom == Init /\ [][NextCustom]_vars

\* one call of update_external_plugins on the store
CallPlugins(plugins, recorded) ==
    \E r \in {update_external_plugins(Db, plugins)} :
    /\ Plugins' = r.db.Plugins
    /\ Settings' = r.db.Settings
    /\ Selects' = r.db.Selects
    /\ Jobs' = r.db.Jobs
    /\ Job_cache' = r.db.Job_cache
    /\ Plugin_pages' = r.db.Plugin_pages
    /\ UNCHANGED <<tables, Services, Global_values, Services_settings,
                   Metadata, Custom_configs, sessions>>
    /\ out' = NoRead
    /\ IF recorded
       THEN /\ calls' = calls + 1
            /\ pre' = Db
            /\ last' = [op |-> "update_external_plugins",
                        config |-> plugins, method |-> "",
                        raised |-> r.raised, ret |-> r.ret,
                        warnings |-> r.warnings,
                        earlier |-> IF calls = 0 THEN <<>>
                                    ELSE Append(last.earlier,
                                                [raised |-> last.raised,
                                                 ret |-> last.ret])]
       ELSE UNCHANGED <<calls, pre, last>>

UpdateExternalPlugins(plugins) ==
    /\ calls = 0
    /\ \E recorded \in BOOLEAN : CallPlugins(plugins, recorded)

\* the caller repeats the recorded call of update_external_plugins
RetryPlugins ==
    /\ calls >= 1
    /\ calls <= MaxRetries
    /\ last.op = "update_external_plugins"
    /\ CallPlugins(last.config, TRUE)

\* a job stores a file in its cache
UpdateJobCache(job_name) ==
    /\ calls = 0
    /\ tables
    /\ Job_cache' = update_job_cache(Db, job_name, <<>>, "f", <<"d">>,
                                     Sha256(<<"d">>)).Job_cache
    /\ UNCHANGED <<tables, Settings, Services, Global_values,
                   Services_settings, Metadata, Custom_configs, Plugins,
                   Selects, Jobs, Plugin_pages, sessions, calls, pre,
                   last>>
    /\ out' = NoRead

\* the runs that synchronize the external plugins
NextPlugins ==
    \/ InitTables
    \/ \E job_name \in CachedJobs : UpdateJobCache(job_name)
    \/ \E plugins \in ManifestLists : UpdateExternalPlugins(plugins)
    \/ RetryPlugins

SpecPlugins == Init /\ [][NextPlugins]_vars

\* the runs that read instances of a setting of context global
NextGlobal ==
    \/ InitTables
    \/ /\ out = NoRead
       /\ \E plugins \in {<<>>, <<PG>>} : UpdateExternalPlugins(plugins)
    \/ /\ out = NoRead
       /\ \E config \in GlobalConfigs, method \in {"manual", "autoconf"} :
             SaveConfig(config, method)
    \/ \E methods \in BOOLEAN : GetConfig(methods)

SpecGlobal == Init /\ [][NextGlobal]_vars

\* the runs in which save_config, save_custom_configs and
\* update_external_plugins follow one another on one store
NextMixed ==
    \/ InitTables
    \/ InitializeDb
    \/ \E config \in MixedConfigs : SaveConfig(config, "manual")
    \/ \E custom_configs \in MixedCustomLists :
          SaveCustomConfigs(custom_configs, "manual")
    \/ \E plugins \in MixedManifestLists : UpdateExternalPlugins(plugins)
    \/ Retry
    \/ RetryCustom
    \/ RetryPlugins

SpecMixed == Init /\ [][NextMixed]_vars

----------------------------------------------------------------------------
(* Two concurrent calls of save_config. Each call runs in its own session, *)
(* one transaction of the store at read-committed isolation: a statement   *)
(* sees the committed rows with the deletes and updates of its own         *)
(* transaction applied, a delete or update of a row that the other open    *)
(* transaction has written waits for it, and the rows of to_put reach the  *)
(* store with session.add_all at the commit. The statements of a call are  *)
(* the ones of save_config, one loop iteration at a time.                  *)

\* the primary key of a row of the two value tables
RowKey(r) ==
    IF r.table = "global_values" THEN <<r.setting_id, r.suffix>>
    ELSE <<r.service_id, r.setting_id, r.suffix>>

Keys(rows) == {RowKey(r) : r \in rows}

\* the rows a transaction sees: the committed rows, without the ones it
\* deleted and with the ones it updated
View(rows, w) ==
    {r \in rows : RowKey(r) \notin w.gone \cup Keys(w.changed)} \cup w.changed

\* the deletes and updates of a transaction after a statement took the
\* rows it sees from before to after
Writes(w, before, after) ==
    LET gone == Keys(before) \ Keys(after)
        changed == after \ before
    IN [gone |-> w.gone \cup gone,
        changed |-> {c \in w.changed : RowKey(c) \notin gone \cup Keys(changed)}
                    \cup changed]

\* the rows a transaction holds locked until it ends
Locked(w) == w.gone \cup Keys(w.changed)

\* the transaction of a session on the committed store db
SessionView(db, se) ==
    [se.t EXCEPT !.Global_values = View(db.Global_values, se.g),
                 !.Services_settings = View(db.Services_settings, se.s)]

\* the session after a statement took its transaction from t1 to t2
Advance(se, t1, t2) ==
    [se EXCEPT !.t = t2,
               !.g = Writes(@, t1.Global_values, t2.Global_values),
               !.s = Writes(@, t1.Services_settings, t2.Services_settings)]

\* a statement of se waits while it writes a row the open session o wrote
Waits(se, o) ==
    /\ o.pc \in {"run", "commit"}
    /\ \/ Locked(se.g) \cap Locked(o.g) # {}
       \/ Locked(se.s) \cap Locked(o.s) # {}

\* the commit of se waits while it inserts a row the open session o deleted
\* or updated
InsertWaits(t, o) ==
    /\ o.pc \in {"run", "commit"}
    /\ \/ Keys(Range(Pending(t, "global_values"))) \cap Locked(o.g) # {}
       \/ Keys(Range(Pending(t, "services_settings"))) \cap Locked(o.s) # {}

\* the server names of the loops of save_config
ServerNames(config) ==
    IF Get(config, MULTISITE) = <<"yes">> THEN Split(Get(config, SERVER_NAME))
    ELSE <<Split(Get(config, SERVER_NAME))[1]>>

\* one iteration of the loop over the keys, for the server at se.n and the
\* item at se.i; the first iteration of a server follows the statements
\* ahead of the loop
RaceItem(db, t, se) ==
    LET server_name == ServerNames(se.config)[se.n]
        item == se.config[se.i]
    IN
    IF Get(se.config, MULTISITE) = <<"yes">>
    THEN MultisiteKey(db, IF se.i = 1 THEN EnsureService(db, t, server_name) ELSE t,
                      se.config, se.method, server_name, item)
    ELSE SingleSiteKey(db,
                       IF se.i = 1
                       THEN [t EXCEPT !.to_put = Append(@, ServicesRow(server_name))]
                       ELSE t,
                       se.method, item)

\* the position after the iteration at (se.n, se.i)
Forward(se) ==
    IF se.i < Len(se.config) THEN [se EXCEPT !.i = @ + 1]
    ELSE IF se.n < Len(ServerNames(se.config)) THEN [se EXCEPT !.n = @ + 1, !.i = 1]
    ELSE [se EXCEPT !.pc = "commit"]

\* a session that ended: its transaction and its locks are gone
Ended(se, raised, ret) ==
    [se EXCEPT !.pc = "done", !.t = <<>>, !.g = NoWrites, !.s = NoWrites,
               !.raised = raised, !.ret = ret]

Other(id) == CHOOSE o \in SessionIds : o # id

\* "with self.__db_session() as session:" and the two deletes of the rows of
\* the method. Session 1 opens first; session 2 is a call with another
\* method, made once session 1 is open or has ended.
RaceBegin(id, config, method) ==
    /\ tables
    /\ config = <<>> \/ (Has(config, MULTISITE) /\ Has(config, SERVER_NAME))
    /\ sessions[id].pc = "idle"
    /\ IF id = 1 THEN calls = 0
       ELSE sessions[1].pc # "idle" /\ method # sessions[1].method
    /\ \E t \in {Begin(Db, method)} :
       \E se \in {Advance([NoSession EXCEPT
                               !.pc = IF config = <<>> THEN "commit" ELSE "run",
                               !.config = config, !.method = method,
                               !.serial = sessions[Other(id)].pc = "done"],
                           [t EXCEPT !.Global_values = Global_values,
                                     !.Services_settings = Services_settings],
                           t)} :
          /\ ~Waits(se, sessions[Other(id)])
          /\ sessions' = [sessions EXCEPT ![id] = se]
    /\ IF id = 1
       THEN /\ calls' = 1
            /\ pre' = Db
            /\ last' = [NoCall EXCEPT !.op = "race"]
       ELSE UNCHANGED <<calls, pre, last>>
    /\ out' = NoRead
    /\ UNCHANGED <<tables, Settings, Services, Global_values,
                   Services_settings, Metadata, Custom_configs, plugin_tables>>

\* one iteration of the loops of save_config in the session id; an
\* exception leaves the with block and the session rolls back
RaceStep(id) ==
    /\ sessions[id].pc = "run"
    /\ \E t1 \in {SessionView(Db, sessions[id])} :
       \E t2 \in {RaceItem(Db, t1, sessions[id])} :
       \E se \in {IF t2.raised THEN Ended(sessions[id], TRUE, "unreturned")
                  ELSE Forward(Advance(sessions[id], t1, t2))} :
          /\ ~Waits(se, sessions[Other(id)])
          /\ sessions' = [sessions EXCEPT ![id] = se]
    /\ UNCHANGED <<tables, Settings, Services, Global_values,
                   Services_settings, Metadata, Custom_configs, plugin_tables,
                   calls, pre, last, out>>

\* the end of save_config in the session id: the metadata flag,
\* session.add_all(to_put) and session.commit(), or the traceback
RaceCommit(id) ==
    /\ sessions[id].pc = "commit"
    /\ \E t \in {SessionView(Db, sessions[id])} :
       \E r \in {Commit(Db, t)} :
          /\ ~InsertWaits(t, sessions[Other(id)])
          /\ Services' = r.db.Services
          /\ Global_values' = r.db.Global_values
          /\ Services_settings' = r.db.Services_settings
          /\ Metadata' = r.db.Metadata
          /\ sessions' = [sessions EXCEPT ![id] = Ended(@, r.raised, r.ret)]
    /\ UNCHANGED <<tables, Settings, Custom_configs, plugin_tables, calls,
                   pre, last, out>>

\* the runs of two concurrent calls: calls that are not concurrent fill
\* the store, then the two sessions run
NextRace ==
    \/ InitTables
    \/ InitializeDb
    \/ \E config \in RaceConfigs, method \in RaceMethods :
          calls = 0 /\ Call(config, method, FALSE)
    \/ \E id \in SessionIds, config \in RaceConfigs, method \in RaceMethods :
          RaceBegin(id, config, method)
    \/ \E id \in SessionIds : RaceStep(id)
    \/ \E id \in SessionIds : RaceCommit(id)

SpecRace == Init /\ [][NextRace]_vars

----------------------------------------------------------------------------
(* Properties of save_config *)

Recorded == last.op = "save_config"
Succeeded == Recorded /\ ~last.raised /\ last.ret = ""
Failed == Recorded /\ (last.raised \/ last.ret # "")

IsMultisite(config) == Has(config, MULTISITE) /\ Get(config, MULTISITE) = <<"yes">>
IsSingleSite(config) == Has(config, MULTISITE) /\ Get(config, MULTISITE) # <<"yes">>

GlobalRowsAt(rows, key, suffix) ==
    {r \in rows : r.setting_id = key /\ r.suffix = suffix}

ServiceRowsAt(rows, service, key, suffix) ==
    {r \in rows : r.service_id = service /\ r.setting_id = key /\ r.suffix = suffix}

\* item i of the config names the global instance (key, suffix)
SubmitsGlobal(config, i, key, suffix) ==
    ParseSuffix(config[i].key) = [suffix |-> suffix, key |-> key]

\* item i of the config names the instance (key, suffix) of the service
SubmitsService(config, i, service, key, suffix) ==
    ParseSuffix(config[i].key) = [suffix |-> suffix, key |-> <<service>> \o key]

Known(key) == \E s \in Settings : s.id = key
DefaultOf(key) == (CHOOSE s \in Settings : s.id = key).default

\* C1: a call of a method other than autoconf leaves every row of another
\* method as it is (value, method, presence), and every row the call adds
\* or changes carries the method of the call.
C1_ForeignRowsKept ==
    (Recorded /\ last.method # "autoconf") =>
        /\ \A r \in pre.Global_values :
              r.method # last.method => r \in Global_values
        /\ \A r \in pre.Services_settings :
              r.method # last.method => r \in Services_settings
        /\ \A r \in Global_values \ pre.Global_values : r.method = last.method
        /\ \A r \in Services_settings \ pre.Services_settings :
              r.method = last.method

\* a successful call of manual submitted another value at a global key and
\* at a service key that scheduler owns
C1_Witness ==
    /\ Succeeded
    /\ last.method = "manual"
    /\ \E r \in pre.Global_values, i \in DOMAIN last.config :
          /\ r.method = "scheduler"
          /\ SubmitsGlobal(last.config, i, r.setting_id, r.suffix)
          /\ last.config[i].value \notin {r.value, DefaultOf(r.setting_id)}
    /\ \E r \in pre.Services_settings : r.method = "scheduler"

\* C2: a call repeated with the same arguments leaves the Services,
\* Global_values and Services_settings rows the first call left.
C2_Idempotent ==
    calls >= 2 =>
        /\ Services = pre.Services
        /\ Global_values = pre.Global_values
        /\ Services_settings = pre.Services_settings

\* a call that wrote rows beside rows of another method was repeated, and
\* both calls succeeded
C2_Witness ==
    /\ calls = 2
    /\ Succeeded
    /\ last.earlier[1].ret = "" /\ ~last.earlier[1].raised
    /\ \E r \in Global_values : r.method = last.method
    /\ \E r \in Services_settings : r.method = last.method
    /\ \E r \in Global_values : r.method # last.method

\* C3: a successful multisite call of autoconf that submits, at a global
\* instance that manual owns, a value other than the stored one leaves one
\* row there, with the submitted value and method autoconf, or no row when
\* the submitted value is the default.
C3_AutoconfOverridesGlobal ==
    (Succeeded /\ last.method = "autoconf" /\ IsMultisite(last.config)) =>
        \A i \in DOMAIN last.config, r \in pre.Global_values :
            ( /\ SubmitsGlobal(last.config, i, r.setting_id, r.suffix)
              /\ Known(r.setting_id)
              /\ r.method = "manual"
              /\ last.config[i].value # r.value )
            => GlobalRowsAt(Global_values, r.setting_id, r.suffix) =
                 IF last.config[i].value = DefaultOf(r.setting_id)
                 THEN {}
                 ELSE {GlobalRow(r.setting_id, last.config[i].value, r.suffix,
                                 "autoconf")}

\* C4: a successful single-site call of autoconf that submits a known key
\* (other than the two keys that set the mode) whose row another method
\* owns makes the row autoconf's with the submitted value, or deletes it
\* when the submitted value is the default.
C4_SingleSiteAutoconfOverrides ==
    (Succeeded /\ last.method = "autoconf" /\ IsSingleSite(last.config)) =>
        \A i \in DOMAIN last.config, r \in pre.Global_values :
            ( /\ SubmitsGlobal(last.config, i, r.setting_id, r.suffix)
              /\ Known(r.setting_id)
              /\ r.setting_id \notin {MULTISITE, SERVER_NAME}
              /\ r.method # "autoconf"
              /\ last.config[i].value # r.value )
            => GlobalRowsAt(Global_values, r.setting_id, r.suffix) =
                 IF last.config[i].value = DefaultOf(r.setting_id)
                 THEN {}
                 ELSE {GlobalRow(r.setting_id, last.config[i].value, r.suffix,
                                 "autoconf")}

\* C5: a multisite call of autoconf that submits a key of a listed service
\* at which another method owns a row completes, and the row is deleted
\* (the value is the default or the global value of the same config) or is
\* autoconf's with the submitted value (the value differs from the stored).
C5_AutoconfOverridesService ==
    ( /\ Recorded /\ pre.tables /\ last.method = "autoconf"
      /\ IsMultisite(last.config) /\ Has(last.config, SERVER_NAME) ) =>
        \A i \in DOMAIN last.config, r \in pre.Services_settings :
            ( /\ SubmitsService(last.config, i, r.service_id, r.setting_id,
                                r.suffix)
              /\ InList(r.service_id, Split(Get(last.config, SERVER_NAME)))
              /\ Known(r.setting_id)
              /\ r.method # "autoconf" )
            => /\ Succeeded
               /\ LET now == ServiceRowsAt(Services_settings, r.service_id,
                                           r.setting_id, r.suffix)
                      value == last.config[i].value
                  IN IF Redundant(last.config, r.setting_id, value,
                                  [default |-> DefaultOf(r.setting_id)])
                     THEN now = {}
                     ELSE value # r.value =>
                          now = {ServiceRow(r.service_id, r.setting_id, value,
                                            r.suffix, "autoconf")}

\* C6: a call that fails, by returning a failure or by raising, leaves the
\* Global_values, Services_settings, Services and Metadata rows it found.
C6_FailureRollsBack ==
    Failed =>
        /\ Global_values = pre.Global_values
        /\ Services_settings = pre.Services_settings
        /\ Services = pre.Services
        /\ Metadata = pre.Metadata

\* a call found rows of its own method and a metadata row whose flag is
\* not set, and its commit failed
C6_Witness ==
    /\ Recorded /\ last.ret = "traceback"
    /\ \E r \in pre.Global_values : r.method = last.method
    /\ \E r \in pre.Global_values : r.method # last.method
    /\ pre.Metadata # <<>> /\ ~pre.Metadata[1].first_config_saved

\* C7: a call made once the tables exist ends by returning a string.
C7_AlwaysReturns == (Recorded /\ pre.tables) => ~last.raised

\* C8: the repetition of a call that returned success returns success.
C8_RetrySucceeds ==
    (calls >= 2 /\ ~last.earlier[calls - 1].raised
                /\ last.earlier[calls - 1].ret = "") => Succeeded

\* C9: after a successful call of m every row of m holds a key and value
\* of the config of the call; an empty config leaves no row of m and
\* leaves the rows of the other methods as they were.
C9_OnlySubmittedRows ==
    Succeeded =>
        /\ \A r \in Global_values :
              r.method = last.method =>
                 \E i \in DOMAIN last.config :
                    /\ SubmitsGlobal(last.config, i, r.setting_id, r.suffix)
                    /\ last.config[i].value = r.value
        /\ \A r \in Services_settings :
              r.method = last.method =>
                 \E i \in DOMAIN last.config :
                    /\ SubmitsService(last.config, i, r.service_id,
                                      r.setting_id, r.suffix)
                    /\ last.config[i].value = r.value
        /\ last.config = <<>> =>
              /\ Global_values = DeleteOldConfig(pre.Global_values, last.method)
              /\ Services_settings =
                    DeleteOldConfig(pre.Services_settings, last.method)

\* a successful call retired a global row and a service row of its method
\* that its config did not submit, beside rows of another method
C9_Witness ==
    /\ Succeeded
    /\ \E r \in pre.Global_values \ Global_values : r.method = last.method
    /\ \E r \in pre.Services_settings \ Services_settings :
          r.method = last.method
    /\ \E r \in Global_values : r.method # last.method
    /\ \E r \in Global_values : r.method = last.method

Ran == Recorded /\ pre.tables

\* C11: a call adds no Global_values or Services_settings row whose setting
\* is not in the settings table: a submitted key of no known setting is
\* dropped, in multisite and in single-site mode.
C11_UnknownKeyDropped ==
    Ran =>
        /\ \A r \in Global_values \ pre.Global_values : Known(r.setting_id)
        /\ \A r \in Services_settings \ pre.Services_settings :
              Known(r.setting_id)

----------------------------------------------------------------------------
(* Properties of get_config and get_services_settings *)

ReadConfig == out.op = "get_config" /\ ~out.raised
ReadServices == out.op = "get_services_settings" /\ ~out.raised

\* the service names a multisite config lists
Listed(config) == Range(Split(Get(config, SERVER_NAME)))

\* item i of the config is a key of a known setting, global or of a listed
\* service, with a value other than the default of the setting
SubmitsNonDefault(config, i) ==
    LET p == ParseSuffix(config[i].key) IN
    IF Known(p.key) THEN config[i].value # DefaultOf(p.key)
    ELSE /\ IsMultisite(config)
         /\ Len(p.key) >= 2
         /\ p.key[1] \in Listed(config)
         /\ Known(Tail(p.key))
         /\ config[i].value # DefaultOf(Tail(p.key))

\* C12: after a successful call of m, get_config(methods=True) holds every
\* submitted key of a known setting whose value is not the default, with
\* the submitted value and the method m, whatever rows of other methods
\* the call found.
C12_RoundTrip ==
    (Succeeded /\ ReadConfig /\ out.methods) =>
        \A i \in DOMAIN last.config :
            SubmitsNonDefault(last.config, i) =>
                /\ last.config[i].key \in DOMAIN out.ret
                /\ out.ret[last.config[i].key] =
                      [value |-> last.config[i].value, method |-> last.method]

\* the call found no service, no global value and no service value
FoundEmpty ==
    pre.Services = {} /\ pre.Global_values = {} /\ pre.Services_settings = {}

\* item i of the config is the global key, at suffix 0, of a setting of
\* context multisite, with a value other than the default, and the config
\* holds no key of a service for the setting
SubmitsGlobalOnly(config, i) ==
    /\ \E setting \in Settings :
          /\ setting.id = config[i].key
          /\ setting.context = "multisite"
          /\ setting.default # config[i].value
    /\ \A j \in DOMAIN config :
          ~(Len(config[j].key) >= 2
            /\ ParseSuffix(Tail(config[j].key)).key = config[i].key)

C14_EverySuffixStored ==
    (Succeeded /\ IsMultisite(last.config)) =>
        \A i \in DOMAIN last.config :
            LET p == ParseSuffix(last.config[i].key) IN
            ( /\ Known(p.key)
              /\ last.config[i].value # DefaultOf(p.key)
              /\ GlobalRowsAt(pre.Global_values, p.key, p.suffix) = {} )
            => GlobalRowsAt(Global_values, p.key, p.suffix) =
                 {GlobalRow(p.key, last.config[i].value, p.suffix, last.method)}

\* the values the store holds for a setting at suffix 0
GlobalOrDefault(setting) ==
    LET rows == GlobalRowsAt(Global_values, setting.id, 0) IN
    IF rows = {} THEN setting.default ELSE (CHOOSE r \in rows : TRUE).value

OverrideOrGlobal(service, setting) ==
    LET rows == ServiceRowsAt(Services_settings, service, setting.id, 0) IN
    IF rows = {} THEN GlobalOrDefault(setting)
    ELSE (CHOOSE r \in rows : TRUE).value

\* C15: in the result of get_config, for every service s and every setting
\* k of context multisite, the value of s_k is the value of the row
\* ServiceSetting(s, k, 0), else of the row GlobalValue(k, 0), else the
\* default of k, and the value of k is that of GlobalValue(k, 0) or the
\* default, whatever the services override.
C15_OverlayAtSuffix0 ==
    ReadConfig =>
        \A s \in Services, setting \in Settings :
            setting.context = "multisite" =>
                /\ setting.id \in DOMAIN out.ret
                /\ ValueOf(out.ret[setting.id], out.methods) =
                      GlobalOrDefault(setting)
                /\ ServiceKey(s, setting.id) \in DOMAIN out.ret
                /\ ValueOf(out.ret[ServiceKey(s, setting.id)], out.methods) =
                      OverrideOrGlobal(s, setting)

\* get_config read a store where service a overrides the global value of K
\* and service b does not
C15_Witness ==
    /\ ReadConfig
    /\ {"a", "b"} \subseteq Services
    /\ \E g \in GlobalRowsAt(Global_values, K, 0),
          o \in ServiceRowsAt(Services_settings, "a", K, 0) : g.value # o.value
    /\ ServiceRowsAt(Services_settings, "b", K, 0) = {}
    /\ ValueOf(out.ret[<<"a", "K">>], out.methods)
          # ValueOf(out.ret[<<"b", "K">>], out.methods)

\* C16: for a setting of context multisite with multiple = True, every
\* GlobalValue stored at the contiguous suffixes 0..n is in the result of
\* get_config under k, k_1, ..., k_n, also when no service has a row at
\* these suffixes.
C16_ContiguousSuffixes ==
    (ReadConfig /\ Services # {}) =>
        \A r \in Global_values, setting \in Settings :
            ( /\ setting.id = r.setting_id
              /\ setting.context = "multisite" /\ setting.multiple
              /\ \A n \in 0 .. r.suffix :
                    GlobalRowsAt(Global_values, r.setting_id, n) # {} )
            => /\ SuffixedKey(r.setting_id, r.suffix) \in DOMAIN out.ret
               /\ ValueOf(out.ret[SuffixedKey(r.setting_id, r.suffix)],
                          out.methods) = r.value

\* C17: get_services_settings returns one config per stored service; in
\* the config of service s a key k has the value get_config gives s_k when
\* it gives one, and else the value get_config gives k; every key of
\* get_config and every k of an s_k is there.
C17_ServicesSettings ==
    ReadServices =>
        /\ Len(out.ret) = Cardinality(Services)
        /\ Range(out.services) = Services
        /\ \A i \in DOMAIN out.ret :
              LET s == out.services[i]
                  config == get_config(Db, out.methods)
              IN /\ DOMAIN config \subseteq DOMAIN out.ret[i]
                 /\ \A key \in DOMAIN config :
                       (Len(key) >= 2 /\ key[1] = s) =>
                          Tail(key) \in DOMAIN out.ret[i]
                 /\ \A k \in DOMAIN out.ret[i] :
                       out.ret[i][k] =
                          IF ServiceKey(s, k) \in DOMAIN config
                          THEN config[ServiceKey(s, k)]
                          ELSE config[k]

\* get_services_settings returned the configs of a and b, and K differs
\* between them because a overrides it
C17_Witness ==
    /\ ReadServices
    /\ Len(out.ret) >= 2
    /\ \E i, j \in DOMAIN out.ret :
          /\ out.services[i] = "a" /\ out.services[j] = "b"
          /\ ServiceRowsAt(Services_settings, "a", K, 0) # {}
          /\ ValueOf(out.ret[i][K], out.methods)
                # ValueOf(out.ret[j][K], out.methods)

----------------------------------------------------------------------------
(* Properties of save_custom_configs *)

RecordedCustom == last.op = "save_custom_configs"

\* the call returned its warnings: the commit did not fail
CommittedCustom ==
    /\ RecordedCustom /\ ~last.raised
    /\ \A n \in DOMAIN last.ret : last.ret[n] # <<"traceback">>

CustomRowsAt(rows, config) == {r \in rows : SameCustomKey(r, config)}

\* entry i is the only entry of the list with its (service, type, name)
SubmittedOnce(custom_configs, i) ==
    \A j \in DOMAIN custom_configs :
        j # i => ~SameCustomKey(CustomRow(custom_configs[j], ""),
                                CustomRow(custom_configs[i], ""))

\* C18: a call of a method other than autoconf leaves every row of
\* another method as it is: data, checksum, method and presence, also
\* when it submits the key of the row with another content.
C18_ForeignCustomKept ==
    (RecordedCustom /\ last.method # "autoconf") =>
        \A r \in pre.Custom_configs :
            r.method # last.method => r \in Custom_configs

\* a call of manual that committed submitted another content at the key of
\* a row of autoconf
C18_Witness ==
    /\ CommittedCustom /\ last.method = "manual"
    /\ \E i \in DOMAIN last.config, r \in pre.Custom_configs :
          /\ r.method = "autoconf"
          /\ SameCustomKey(r, CustomRow(last.config[i], "manual"))
          /\ r.checksum # CustomRow(last.config[i], "manual").checksum

\* C19: when autoconf submits one entry at the key of a row of another
\* method and the call commits, the row holds the normalized content and
\* the checksum of the entry and is autoconf's when the checksum of the
\* entry differs from the stored one, and is left as it was, owner
\* included, when the checksums are equal.
C19_AutoconfCustom ==
    (CommittedCustom /\ last.method = "autoconf") =>
        \A i \in DOMAIN last.config, r \in pre.Custom_configs :
            LET config == CustomRow(last.config[i], "autoconf") IN
            ( /\ r.method # "autoconf"
              /\ SameCustomKey(r, config)
              /\ SubmittedOnce(last.config, i) )
            => CustomRowsAt(Custom_configs, config) =
                  IF config.checksum # r.checksum THEN {config} ELSE {r}

\* autoconf submitted, at the key of a row of manual, an entry of another
\* checksum whose content the normalization changes
C19_Witness ==
    /\ CommittedCustom /\ last.method = "autoconf"
    /\ \E i \in DOMAIN last.config, r \in pre.Custom_configs :
          /\ r.method = "manual"
          /\ SameCustomKey(r, CustomRow(last.config[i], "autoconf"))
          /\ SubmittedOnce(last.config, i)
          /\ r.checksum # CustomRow(last.config[i], "autoconf").checksum
          /\ last.config[i].value # Normalize(last.config[i].value)

\* C20: the checksum of every stored row is the sha256 of the data of the
\* row.
C20_ChecksumOfData ==
    \A r \in Custom_configs : r.checksum = Sha256(r.data)

\* autoconf has rewritten the content of a row that manual stored
C20_Witness ==
    /\ CommittedCustom /\ last.method = "autoconf"
    /\ \E r \in pre.Custom_configs, n \in Custom_configs :
          /\ r.method = "manual" /\ n.method = "autoconf"
          /\ SameCustomKey(r, n) /\ r.data # n.data

\* the recorded call repeats a call that committed
CommittedEarlier ==
    /\ calls >= 2 /\ RecordedCustom
    /\ ~last.earlier[calls - 1].raised
    /\ \A n \in DOMAIN last.earlier[calls - 1].ret :
          last.earlier[calls - 1].ret[n] # <<"traceback">>

\* C21: when a call that committed is repeated with the same entries and
\* method and commits, every submitted key has exactly one row, with the
\* checksum it had after the first call, and the repetition neither
\* deletes and re-creates nor updates the row.
C21_SecondSaveRewritesNothing ==
    (CommittedEarlier /\ CommittedCustom) =>
        \A i \in DOMAIN last.config :
            LET config == CustomRow(last.config[i], last.method) IN
            /\ Cardinality(CustomRowsAt(Custom_configs, config)) = 1
            /\ \A r \in CustomRowsAt(Custom_configs, config) :
                  \E p \in CustomRowsAt(pre.Custom_configs, config) :
                     p.checksum = r.checksum
            /\ CustomRowsAt(Custom_configs, config)
                  = CustomRowsAt(pre.Custom_configs, config)
            /\ CustomRowsAt(last.deleted \cup last.put, config) = {}

\* the service of the entry is named and is not stored
MissingService(db, custom_config) ==
    /\ custom_config.exploded[1] # ""
    /\ custom_config.exploded[1] \notin db.Services

\* C22: a call made once the tables exist returns; every entry of a
\* service that is not stored has its line "Service <id> not found" in the
\* message; a list of distinct keys is committed, the entry of the missing
\* service and the entries beside it included; a call that commits and
\* names no missing service returns the empty message.
C22_MissingServiceWarned ==
    (RecordedCustom /\ pre.tables) =>
        /\ ~last.raised
        /\ \A i \in DOMAIN last.config :
              MissingService(pre, last.config[i]) =>
                 \E n \in DOMAIN last.ret :
                    last.ret[n] = <<"Service", last.config[i].exploded[1],
                                    "not found">>
        /\ (\A i \in DOMAIN last.config : SubmittedOnce(last.config, i))
              => CommittedCustom
        /\ CommittedCustom =>
              \A i \in DOMAIN last.config :
                 LET config == CustomRow(last.config[i], last.method) IN
                 ( /\ SubmittedOnce(last.config, i)
                   /\ \A r \in CustomRowsAt(pre.Custom_configs, config) :
                         r.method = last.method )
                 => config \in Custom_configs
        /\ ( /\ CommittedCustom
             /\ \A i \in DOMAIN last.config :
                   ~MissingService(pre, last.config[i]) )
              => last.ret = <<>>

\* a call that committed submitted an entry of a service that is not
\* stored beside an entry of no service: both rows are stored and the
\* message is not empty
C22_Witness ==
    /\ CommittedCustom /\ last.ret # <<>>
    /\ \E i, j \in DOMAIN last.config :
          /\ MissingService(pre, last.config[i])
          /\ ~MissingService(pre, last.config[j])
          /\ CustomRow(last.config[i], last.method) \in Custom_configs
          /\ CustomRow(last.config[j], last.method) \in Custom_configs
          /\ CustomRow(last.config[j], last.method) \notin pre.Custom_configs

\* C23: after a call of m that committed, every row of m is at a key of
\* an entry of the call; the call of the empty list leaves no row of m and
\* leaves every row of the other methods as it found it.
C23_OnlySubmittedCustomRows ==
    CommittedCustom =>
        /\ \A r \in Custom_configs :
              r.method = last.method =>
                 \E i \in DOMAIN last.config :
                    SameCustomKey(r, CustomRow(last.config[i], last.method))
        /\ last.config = <<>> =>
              Custom_configs
                 = {r \in pre.Custom_configs : r.method # last.method}

\* a call that committed retired a row of its method at a key it did not
\* submit and wrote a row at another key, beside a row of another method
C23_Witness ==
    /\ CommittedCustom
    /\ \E r \in pre.Custom_configs \ Custom_configs :
          /\ r.method = last.method
          /\ \A i \in DOMAIN last.config :
                ~SameCustomKey(r, CustomRow(last.config[i], last.method))
    /\ \E r \in Custom_configs : r.method = last.method
    /\ \E r \in Custom_configs : r.method # last.method

----------------------------------------------------------------------------
(* Properties of update_external_plugins *)

RecordedPlugins == last.op = "update_external_plugins"
SucceededPlugins == RecordedPlugins /\ ~last.raised /\ last.ret = ""
FailedPlugins == RecordedPlugins /\ (last.raised \/ last.ret # "")

\* the ids of the stored plugins that are not external, and of those that
\* are
BuiltIn(db) == {r.id : r \in {p \in db.Plugins : ~p.external}}
External(db) == {r.id : r \in {p \in db.Plugins : p.external}}

\* the rows of the plugins of ids: the plugins, their settings, the selects
\* of these settings, their jobs and their pages
OwnedBy(db, ids) ==
    [Plugins |-> {r \in db.Plugins : r.id \in ids},
     Settings |-> {r \in db.Settings : r.plugin_id \in ids},
     Selects |-> {r \in db.Selects :
                    \E st \in db.Settings :
                       st.plugin_id \in ids /\ st.id = r.setting_id},
     Jobs |-> {r \in db.Jobs : r.plugin_id \in ids},
     Plugin_pages |-> {r \in db.Plugin_pages : r.plugin_id \in ids}]

\* the rows of the tables of the plugins
PluginStore(db) ==
    [Plugins |-> db.Plugins, Settings |-> db.Settings,
     Selects |-> db.Selects, Jobs |-> db.Jobs, Job_cache |-> db.Job_cache,
     Plugin_pages |-> db.Plugin_pages]

\* the ids of the descriptors of a list
Ids(plugins) == {plugins[i].id : i \in DOMAIN plugins}

\* C24: a call, whatever its descriptors and its outcome, leaves every
\* plugin that is not external, and the settings, selects, jobs and pages
\* of such a plugin, as it found them.
C24_BuiltInUntouched ==
    RecordedPlugins =>
        OwnedBy(Db, BuiltIn(pre)) = OwnedBy(pre, BuiltIn(pre))

\* a call found an external plugin that its list does not name, and its
\* list names the core plugin or declares a setting of the core plugin
C24_Witness ==
    /\ RecordedPlugins
    /\ External(pre) \ Ids(last.config) # {}
    /\ \E i \in DOMAIN last.config :
          \/ last.config[i].id \in BuiltIn(pre)
          \/ \E j \in DOMAIN last.config[i].settings, st \in pre.Settings :
                /\ st.id = last.config[i].settings[j].id
                /\ st.plugin_id \in BuiltIn(pre)

\* C25: a call whose list holds a descriptor with the id of a stored
\* plugin that is not external logs the warning of the descriptor, returns
\* "", and stores the plugins of the other descriptors of the list.
C25_BuiltInManifestSkipped ==
    (RecordedPlugins /\ pre.tables) =>
        \A i \in DOMAIN last.config :
            last.config[i].id \in BuiltIn(pre) =>
               /\ SucceededPlugins
               /\ InList(last.config[i].id, last.warnings)
               /\ \A j \in DOMAIN last.config :
                     last.config[j].id \notin BuiltIn(pre) =>
                        PluginRow(MarkExternal(last.config[j])) \in Plugins

\* C26: the repetition of a call leaves every row of the plugins,
\* settings, selects, jobs, job_cache and plugin_pages tables as the first
\* call left it.
C26_FixedPoint ==
    (RecordedPlugins /\ calls >= 2) => PluginStore(Db) = PluginStore(pre)

\* a call that stored a plugin with its setting, job and page, and removed
\* another one, was repeated
C26_Witness ==
    /\ RecordedPlugins /\ calls >= 2
    /\ ~last.earlier[calls - 1].raised /\ last.earlier[calls - 1].ret = ""
    /\ \E i \in DOMAIN last.config :
          /\ last.config[i].id \in External(Db)
          /\ last.config[i].settings # <<>>
          /\ last.config[i].jobs # <<>>
          /\ last.config[i].pages # <<>>
    /\ Job_cache # {}

\* C27: when the id of a descriptor is the id of a stored external plugin,
\* the call succeeds, the stored plugin has the order, name, description
\* and version of the descriptor, and the id has one row.
C27_StoredExternalDiffed ==
    (RecordedPlugins /\ pre.tables) =>
        \A i \in DOMAIN last.config :
            last.config[i].id \in External(pre) =>
               /\ SucceededPlugins
               /\ {r \in Plugins : r.id = last.config[i].id}
                     = {PluginRow(MarkExternal(last.config[i]))}

\* C28: after a call that succeeded, the ids of the stored external
\* plugins are the ids of the list that name no plugin that is not
\* external; the row of each of them is the row of its descriptor, marked
\* external.
C28_ExternalSetIsDesired ==
    SucceededPlugins =>
        /\ External(Db) = Ids(last.config) \ BuiltIn(pre)
        /\ \A i \in DOMAIN last.config :
              last.config[i].id \notin BuiltIn(pre)
                 => PluginRow(MarkExternal(last.config[i])) \in Plugins

\* a call that succeeded removed an external plugin that its list does not
\* name and added a plugin that was not stored
C28_Witness ==
    /\ SucceededPlugins
    /\ External(pre) \ Ids(last.config) # {}
    /\ External(pre) \ External(Db) # {}
    /\ External(Db) \ External(pre) # {}

\* C29: a call that fails, by returning a failure or by raising, leaves
\* every row as it found it: the external plugins that its list does not
\* name are stored, and no row of the call is added.
C29_FailureUndone ==
    FailedPlugins => PluginStore(Db) = PluginStore(pre)

\* a call that failed found an external plugin, with a setting, that its
\* list does not name, and its list holds a plugin that was not stored
C29_Witness ==
    /\ FailedPlugins /\ last.ret = "traceback"
    /\ \E id \in External(pre) \ Ids(last.config) :
          \E st \in pre.Settings : st.plugin_id = id
    /\ Ids(last.config) \ (External(pre) \cup BuiltIn(pre)) # {}

----------------------------------------------------------------------------
(* Keys of the value tables *)

----------------------------------------------------------------------------
(* The flag of the metadata row *)

FlagSet(metadata) == metadata # <<>> /\ metadata[1].first_config_saved

\* C31: the metadata row is created with first_config_saved false; a call
\* of save_config that returns success on a store with the row leaves the
\* flag true, and a call of save_config that fails leaves the row as it
\* was; no step removes the row or changes a flag that is true, and the
\* steps of save_custom_configs and update_external_plugins leave the row
\* as it is.
C31_FirstConfigSaved ==
    [][ /\ (Metadata = <<>> /\ Metadata' # <<>>) => ~FlagSet(Metadata')
        /\ Metadata # <<>> => Metadata' # <<>>
        /\ FlagSet(Metadata) => Metadata' = Metadata
        /\ (calls' = calls + 1 /\ last'.op = "save_config") =>
              /\ (~last'.raised /\ last'.ret = "" /\ Metadata # <<>>)
                    => FlagSet(Metadata')
              /\ (last'.raised \/ last'.ret # "") => Metadata' = Metadata
        /\ (Custom_configs' # Custom_configs \/ Plugins' # Plugins
            \/ (calls' = calls + 1 /\ last'.op # "save_config"))
              => Metadata' = Metadata ]_vars

\* the flag is set on a store that holds a custom config and an external
\* plugin, and a call of save_config has just failed there
C31_Witness ==
    /\ FlagSet(Metadata)
    /\ Custom_configs # {}
    /\ \E r \in Plugins : r.external
    /\ Failed /\ FlagSet(pre.Metadata)

----------------------------------------------------------------------------
(* Instances of a setting of context global *)

\* C32: with a service stored, every Global_values row of a multiple
\* setting of context global that is stored at the contiguous suffixes
\* 0..n is in the result of get_config under k, k_1, ..., k_n with its
\* value.
C32_GlobalSuffixes ==
    (ReadConfig /\ Services # {}) =>
        \A r \in Global_values, setting \in Settings :
            ( /\ setting.id = r.setting_id
              /\ setting.context = "global" /\ setting.multiple
              /\ \A n \in 0 .. r.suffix :
                    GlobalRowsAt(Global_values, r.setting_id, n) # {} )
            => /\ SuffixedKey(r.setting_id, r.suffix) \in DOMAIN out.ret
               /\ ValueOf(out.ret[SuffixedKey(r.setting_id, r.suffix)],
                          out.methods) = r.value

----------------------------------------------------------------------------
(* The values of the keys of a service *)

\* item i of the config is a key of a listed service for an instance of a
\* known setting of context multisite
SubmitsOverride(config, i) ==
    LET p == ParseSuffix(config[i].key) IN
    /\ Len(p.key) >= 2
    /\ p.key[1] \in Listed(config)
    /\ \E setting \in Settings :
          setting.id = Tail(p.key) /\ setting.context = "multisite"

\* C33: after a successful multisite call followed by get_config, every
\* submitted key of a listed service, for a known setting of context
\* multisite at whose instance the service has no row of another method,
\* is in the result with the submitted value.
C33_ElisionKeepsValue ==
    (Succeeded /\ IsMultisite(last.config) /\ ReadConfig) =>
        \A i \in DOMAIN last.config :
            LET p == ParseSuffix(last.config[i].key) IN
            ( /\ SubmitsOverride(last.config, i)
              /\ \A r \in ServiceRowsAt(pre.Services_settings \cup
                                           Services_settings,
                                        p.key[1], Tail(p.key), p.suffix) :
                    r.method = last.method )
            => /\ last.config[i].key \in DOMAIN out.ret
               /\ ValueOf(out.ret[last.config[i].key], out.methods)
                     = last.config[i].value

----------------------------------------------------------------------------
(* Concurrent calls of save_config *)

\* the two value tables, the services and the metadata of a store
ConfigTables(db) ==
    <<db.Services, db.Global_values, db.Services_settings, db.Metadata>>

\* the store after the call of session a and then the call of session b
SerialOrder(db, a, b) ==
    save_config(save_config(db, a.config, a.method).db, b.config, b.method).db

BothDone == \A id \in SessionIds : sessions[id].pc = "done"

\* the two calls were open at the same time
Concurrent == BothDone /\ ~sessions[2].serial

\* both calls submit an instance of the same setting
Overlapping(a, b) ==
    \E i \in DOMAIN a.config, j \in DOMAIN b.config :
        ParseSuffix(a.config[i].key) = ParseSuffix(b.config[j].key)

\* C34: two concurrent calls of save_config with different methods that
\* submit an overlapping (setting, suffix) key leave the store that one of
\* the two serial orders of the same calls leaves
C34_Serialized ==
    (Concurrent /\ sessions[1].method # sessions[2].method
       /\ Overlapping(sessions[1], sessions[2]))
    => \/ ConfigTables(Db) = ConfigTables(SerialOrder(pre, sessions[1], sessions[2]))
       \/ ConfigTables(Db) = ConfigTables(SerialOrder(pre, sessions[2], sessions[1]))

====
